---- MODULE Spec2Model ----
(***************************************************************************)
(* Model of the Rhea tool-use agent runtime.                               *)
(*                                                                         *)
(* Two agent implementations exist in the repository and both are          *)
(* modelled; the variable impl, fixed at Init, says which one runs:        *)
(*   "tool_user" : agent_loop of backend/tool_user.py, talking over HTTP   *)
(*                 to the registry server of backend/tool_server.py;       *)
(*   "tool_use"  : ToolUseAgent.process_question of backend/tool_use.py,   *)
(*                 talking over HTTP to the store of backend/tool_store.py.*)
(*                                                                         *)
(* The key pool, class GeminiAPIManager, is modelled with its own          *)
(* specification PoolSpec: concurrent queries of one server process        *)
(* calling generate_content on the shared manager, in real time.           *)
(***************************************************************************)
EXTENDS Integers, Sequences, FiniteSets, TLC

(***************************************************************************)
(* Bounds of the model.                                                    *)
(***************************************************************************)
\* largest max_iterations a /query request is given (tool_user.py:727)
MaxIterations == 2
\* MAX_ITERATIONS of tool_use.py:17 is 10; the model runs it scaled down
MAX_ITERATIONS == 2
\* largest number of GEMINI_API_KEY_i set in the environment of tool_user.py
\* (tool_user.py:42-46)
NumKeys == 1
\* store administration requests (deactivate, clear-bugs, direct create)
\* interleaved with one query
MaxAdminOps == 1
\* nesting depth at which the interpreter stops a recursion of execute_code
\* (RecursionError); scaled down
RecursionLimit == 3

\* largest number of keys a GeminiAPIManager is built with
PoolKeys == 3
\* concurrent queries that share one GeminiAPIManager
NumQueries == 2
\* generate_content calls made on the manager in one behaviour
MaxCalls == 2
\* seconds of real time a behaviour of the key pool covers
MaxElapsed == 130

\* lines of combined output a container run leaves in its logs
MaxLines == 2
\* largest top_k / limit a search is asked for
MaxTopK == 2

\* execute requests the tool server's threads serve at the same time
NumRequests == 3
\* iterations of a WebSocket session (the range of its loop); scaled down
WsIterations == 2
\* chunks the LLM streams in one iteration
MaxChunks == 2
\* clients that send requests to the tool store at the same time
NumClients == 2
\* rows the code_tools table is given in one behaviour (its largest id)
MaxRows == 3
(***************************************************************************)
(* Names.                                                                  *)
(***************************************************************************)
\* tool names the LLM may ask the registry server for
RegistryNames == {"flaky", "broken", "ghost", "reverse_text"}
\* tool names of the tool store
StoreNames == {"web_search", "reverse_text"}
\* tool name the LLM gives to a tool it authors through tool_user.py
AuthoredName == "reverse_text"
NoName == "none"

(***************************************************************************)
(* Tool source text.  A tool's code is abstracted to the one marker word   *)
(* it contains; "return_value" stands for code without any marker.         *)
(***************************************************************************)
CodeWords ==
  {"return_value",
   "placeholder", "simulated", "mock", "dummy", "fake", "TODO",
   "not implemented", "pass  # implementation",
   "Placeholder", "todo"}

\* str.lower() on the marker words
Lower(w) ==
  CASE w = "TODO" -> "todo"
    [] w = "Placeholder" -> "placeholder"
    [] OTHER -> w

\* the list literal of tool_use.py:757-766
forbidden_patterns ==
  {"placeholder", "simulated", "mock", "dummy", "fake", "TODO",
   "not implemented", "pass  # implementation"}

\* any(pattern in code_lower for pattern in forbidden_patterns): the
\* patterns are compared, as written, with the lowered code
HasForbiddenPattern(code) ==
  LET code_lower == Lower(code)
  IN  \E pattern \in forbidden_patterns : pattern = code_lower

(***************************************************************************)
(* State.                                                                  *)
(***************************************************************************)
VARIABLES
  impl,              \* which agent implementation serves the query
  num_keys,          \* len(GEMINI_API_KEYS) of the process
  pc,                \* position of the agent loop
  iteration,         \* iteration / context.iteration
  max_iterations,    \* max_iterations argument / MAX_ITERATIONS
  retry,             \* index of the LLM retry loop of agent_loop
  parsed,            \* parsed_response / agent_state of this iteration
  result,            \* value returned by the agent loop
  llm_calls,         \* iterations in which the LLM was called (observer)
  actions_taken,     \* actions_taken of agent_loop
  internal_history,  \* internal_history of agent_loop
  attempt,           \* attempt counter of handle_use_tool
  execution_result,  \* execution_result of handle_use_tool
  use_stats,         \* observer of the current handle_use_tool: requests
                     \* sent, retry waits, tool bugged at entry
  tools,             \* ToolRegistry.tools (names)
  unavailable_tools, \* ToolRegistry.unavailable_tools (names)
  bugged_tools,      \* ToolRegistry.bugged_tools: name -> failures
  last_request,      \* observer of the last execute request served
  tool_files,        \* files written to ./tools: name -> code
  history,           \* context.history of process_question
  fetched_tools,     \* context.fetched_tools
  store,             \* code_tools table: name -> record
  admin_ops,         \* administration requests made so far
  api_manager,       \* the GeminiAPIManager object shared by the queries
  now,               \* time.time(), in seconds
  running,           \* the query whose handler holds the thread, or 0
  callers,           \* per query: position in generate_content and locals
  pool_obs,          \* observer of the key pool: acquisitions and calls
  docker_executor,   \* the DockerToolExecutor object of tool_server.py
  search_engine,     \* the ToolSearchEngine object of tool_server.py
  served,            \* observer of the last request served
  handlers,          \* per execute request in flight: position and locals
  websocket,         \* the /ws/ask session: position, messages sent
  db_rows,           \* rows of the code_tools table, with their ids
  registry_table,    \* ToolRegistry.tools as entries: name, module
  db_sessions,       \* per store client: the request in flight
  crud               \* observer of the store requests answered

vars ==
  << impl, num_keys, pc, iteration, max_iterations, retry, parsed, result,
     llm_calls, actions_taken, internal_history, attempt, execution_result, use_stats,
     tools, unavailable_tools, bugged_tools, last_request, tool_files,
     history, fetched_tools, store, admin_ops, api_manager, now, running,
     callers, pool_obs, docker_executor, search_engine, served,
     handlers, websocket, db_rows, registry_table, db_sessions, crud >>

poolVars == << api_manager, now, running, callers, pool_obs >>

\* the tool store's table and the requests made to it
dbVars == << db_rows, registry_table, db_sessions, crud >>

\* requests and sessions served concurrently with the agent loops
sessionVars == << handlers, websocket, dbVars >>

serviceVars ==
  << docker_executor, search_engine, served, sessionVars >>

\* the variables of the agent loops that the servers do not hold
loopVars ==
  << impl, num_keys, pc, iteration, max_iterations, retry, parsed, result,
     llm_calls, actions_taken, internal_history, attempt, execution_result,
     use_stats, last_request, tool_files, history, fetched_tools, admin_ops >>

agentVars ==
  << impl, num_keys, pc, iteration, max_iterations, retry, parsed, result,
     llm_calls, actions_taken, internal_history, attempt, execution_result,
     use_stats, tools, unavailable_tools, bugged_tools, last_request,
     tool_files, history, fetched_tools, store, admin_ops >>

userVars ==
  << retry, actions_taken, internal_history, attempt, execution_result,
     use_stats, tools, unavailable_tools, bugged_tools, tool_files >>

useVars == << history, fetched_tools, store, admin_ops >>

(***************************************************************************)
(* Values.                                                                 *)
(***************************************************************************)
NoParsed ==
  [action |-> "none", tool_name |-> NoName, code |-> "return_value",
   desc |-> "plain", calls |-> NoName, valid |-> TRUE,
   provider |-> "ok", response |-> "answer"]

\* kind names the return statement, error_type is the field of that name in
\* the returned record ("absent" when the record has no such field),
\* response is what the record gives as the final answer
NoResult ==
  [success |-> FALSE, kind |-> "none", iterations |-> 0,
   error_type |-> "absent", response |-> "none"]

NoExecution ==
  [success |-> FALSE, is_bugged |-> FALSE, executed_in_docker |-> FALSE,
   error |-> "none"]

NoRequest ==
  [server |-> "none", tool |-> NoName, bugged_before |-> {}, ran |-> {},
   error |-> "none"]

NoStats == [requests |-> 0, waits |-> 0, bugged_at_entry |-> FALSE]

EmptyFun == [x \in {} |-> 0]

Entry(role, kind, tool) == [role |-> role, kind |-> kind, tool |-> tool]

(***************************************************************************)
(* backend/tool_server.py: the registry and its execute endpoint.          *)
(***************************************************************************)
IsToolBugged(bt, tool_name) == tool_name \in DOMAIN bt

\* ToolRegistry.mark_tool_as_bugged: creates the entry on the first failure
\* and appends the failure to it
MarkToolAsBugged(bt, tool_name, error_details) ==
  IF tool_name \in tools
    THEN IF tool_name \notin DOMAIN bt
           THEN bt @@ (tool_name :> << error_details >>)
           ELSE [bt EXCEPT ![tool_name] = Append(@, error_details)]
    ELSE bt

SandboxOutcomes == {"off", "success", "tool_error", "substrate_error"}
DirectOutcomes == {"ok", "raise", "missing_params"}

Response(status, success, is_bugged, in_docker, error, bt, sandbox, direct) ==
  [status |-> status, success |-> success, is_bugged |-> is_bugged,
   executed_in_docker |-> in_docker, docker_fallback |-> FALSE,
   error |-> error, bugged_tools |-> bt,
   ran_sandbox |-> sandbox, ran_direct |-> direct]

\* the execute endpoint without the return after a successful sandbox run
ServerExecuteTool_FallbackAfterSuccess(bt, tool_name, sandbox, direct) ==
  IF tool_name \notin tools
    THEN IF tool_name \in unavailable_tools
           THEN Response(503, FALSE, FALSE, FALSE, "unavailable", bt, FALSE, FALSE)
           ELSE Response(404, FALSE, FALSE, FALSE, "not_found", bt, FALSE, FALSE)
  ELSE IF IsToolBugged(bt, tool_name)
    THEN Response(503, FALSE, TRUE, FALSE, "bugged", bt, FALSE, FALSE)
  ELSE
    LET ran_sandbox == sandbox \in {"success", "tool_error"}
        docker_error == IF sandbox \in {"off", "success"} THEN "none"
                        ELSE sandbox
    IN  IF direct = "ok"
          THEN [Response(200, TRUE, FALSE, FALSE, "none", bt, ran_sandbox, TRUE)
                  EXCEPT !.docker_fallback = docker_error # "none"]
          ELSE Response(500, FALSE, TRUE, FALSE, "execution_failed",
                        MarkToolAsBugged(bt, tool_name,
                          [docker_error |-> docker_error, direct_error |-> direct]),
                        ran_sandbox, direct = "raise")

\* POST /tools/<tool_name>/execute.  sandbox is what the container run does
\* ("off": use_docker is false or the daemon is not available), direct is
\* what registry.execute_tool does when it is reached.
ServerExecuteTool(bt, tool_name, sandbox, direct) ==
  IF tool_name \notin tools
    THEN IF tool_name \in unavailable_tools
           THEN Response(503, FALSE, FALSE, FALSE, "unavailable", bt, FALSE, FALSE)
           ELSE Response(404, FALSE, FALSE, FALSE, "not_found", bt, FALSE, FALSE)
  ELSE IF IsToolBugged(bt, tool_name)
    THEN Response(503, FALSE, TRUE, FALSE, "bugged", bt, FALSE, FALSE)
  ELSE IF sandbox = "success"
    THEN Response(200, TRUE, FALSE, TRUE, "none", bt, TRUE, FALSE)
  ELSE
    LET ran_sandbox == sandbox = "tool_error"
        docker_error == IF sandbox = "off" THEN "none" ELSE sandbox
    IN  IF direct = "ok"
          THEN [Response(200, TRUE, FALSE, FALSE, "none", bt, ran_sandbox, TRUE)
                  EXCEPT !.docker_fallback = docker_error # "none"]
          ELSE Response(500, FALSE, TRUE, FALSE, "execution_failed",
                        MarkToolAsBugged(bt, tool_name,
                          [docker_error |-> docker_error, direct_error |-> direct]),
                        ran_sandbox, direct = "raise")

(***************************************************************************)
(* backend/tool_user.py: the HTTP client of the registry server.           *)
(***************************************************************************)
Transports == {"ok", "timeout", "unreachable"}

\* execute_tool_with_docker: only a 200 answer is passed on as it is; every
\* other answer, a timeout and a connection error become a fresh failure
\* record without the is_bugged field
ExecuteToolWithDocker(transport, response) ==
  IF transport = "ok" /\ response.status = 200
    THEN [success |-> response.success, is_bugged |-> response.is_bugged,
          executed_in_docker |-> response.executed_in_docker,
          error |-> response.error]
    ELSE [success |-> FALSE, is_bugged |-> FALSE,
          executed_in_docker |-> FALSE,
          error |-> IF transport = "ok" THEN response.error ELSE transport]

\* reload_tools_on_server: POST /tools/reload; tool_server.py has no such
\* route, the answer is never 200
ReloadToolsOnServer == FALSE

\* the tool files present when the registry server starts
InitialTools == {"flaky"}
InitialUnavailableTools == {"broken"}

\* what importing a tool file written by the agent gives
LoadOutcomes == {"tool", "import_error", "no_tool"}

\* ToolRegistry.__init__ and _load_tools, run again when the server process
\* is restarted: the tables are rebuilt from the files of the directory and
\* bugged_tools starts empty.  files are the names of the files written by
\* the agent, loads is what importing them gives.
LoadTools(files, loads) ==
  [tools |-> InitialTools \cup (IF loads = "tool" THEN files ELSE {}),
   unavailable_tools |->
     InitialUnavailableTools \cup (IF loads = "import_error" THEN files ELSE {}),
   bugged_tools |-> EmptyFun]

\* what the provider does with a generate_content request
ProviderOutcomes == {"ok", "overloaded", "timeout", "fatal"}

\* the keyword test of agent_loop on the message of a raised exception:
\* 'overloaded', 'rate limit', 'quota', '429', '503', 'resource_exhausted'
IsOverloadError(error) == error = "overloaded"

\* the second keyword test: 'timeout', 'connection', 'network'
IsTransientError(error) == error = "timeout"

\* send_message_to_gemini_model: without a stored key it raises ValueError
\* ('API key is required ...') before its try block; inside the try block
\* every exception of the provider call is caught and the text
\* "Error: <message>" is returned in place of the answer
SendMessageToGeminiModel(keys, provider) ==
  IF keys = 0
    THEN [raised |-> TRUE, error |-> "api_key_required", text |-> "none"]
  ELSE IF provider = "ok"
    THEN [raised |-> FALSE, error |-> "none", text |-> "llm_text"]
  ELSE [raised |-> FALSE, error |-> "none", text |-> "provider_error_text"]

\* max_retries of the LLM retry loop of agent_loop
max_retries == IF num_keys > 0 THEN num_keys * 2 ELSE 6

\* parse_gemini_response: a JSON answer gives its fields; a text that is
\* not JSON and from which no action can be extracted becomes a respond
\* whose response is the text itself
ParseGeminiResponse(text, fields) ==
  IF text = "json" THEN fields
  ELSE [NoParsed EXCEPT !.action = "respond", !.response = text]

UserActions ==
  {"respond", "use_tool", "search_tools", "create_tool", "exit_response",
   "bogus"}

\* the answers the LLM can give to agent_loop, as parsed fields
UserAnswers ==
  { [NoParsed EXCEPT !.action = a] : a \in UserActions \ {"use_tool", "create_tool"} }
  \cup { [NoParsed EXCEPT !.action = "use_tool", !.tool_name = n] : n \in RegistryNames }
  \cup { [NoParsed EXCEPT !.action = "create_tool", !.tool_name = AuthoredName,
                          !.code = c] : c \in CodeWords }

(***************************************************************************)
(* The loop head, common to agent_loop (while iteration < max_iterations)  *)
(* and process_question (for i in range(MAX_ITERATIONS)).                  *)
(***************************************************************************)
\* the loop head with the bound off by one
StartIteration_OffByOne ==
  /\ pc = "top"
  /\ iteration <= max_iterations
  /\ iteration' = iteration + 1
  /\ retry' = 0
  /\ parsed' = NoParsed
  /\ attempt' = 0
  /\ execution_result' = NoExecution
  /\ use_stats' = NoStats
  /\ pc' = "llm"
  /\ UNCHANGED << serviceVars, poolVars, impl, num_keys, max_iterations, result, llm_calls, actions_taken,
                  internal_history, tools, unavailable_tools, bugged_tools,
                  last_request, tool_files, history, fetched_tools, store,
                  admin_ops >>

StartIteration ==
  /\ pc = "top"
  /\ iteration < max_iterations
  /\ iteration' = iteration + 1
  /\ retry' = 0
  \* the locals of the previous iteration are out of scope
  /\ parsed' = NoParsed
  /\ attempt' = 0
  /\ execution_result' = NoExecution
  /\ use_stats' = NoStats
  /\ pc' = "llm"
  /\ UNCHANGED << serviceVars, poolVars, impl, num_keys, max_iterations, result, llm_calls, actions_taken,
                  internal_history, tools, unavailable_tools, bugged_tools,
                  last_request, tool_files, history, fetched_tools, store,
                  admin_ops >>

\* the code after the loop without its return
MaxIterationsReached_NoReturn ==
  /\ pc = "top"
  /\ ~(iteration < max_iterations)
  /\ result' = [success |-> FALSE, kind |-> "max_iterations",
                iterations |-> iteration, error_type |-> "absent",
                response |-> "none"]
  /\ pc' = "top"
  /\ UNCHANGED << serviceVars, poolVars, impl, num_keys, iteration, max_iterations, retry, parsed,
                  llm_calls, userVars, last_request, useVars >>

\* the return after the loop: 'Max iterations reached without final
\* response' / 'Maximum iterations reached'
MaxIterationsReached ==
  /\ pc = "top"
  /\ ~(iteration < max_iterations)
  /\ result' = [success |-> FALSE, kind |-> "max_iterations",
                iterations |-> iteration, error_type |-> "absent",
                response |-> "none"]
  /\ pc' = "done"
  /\ UNCHANGED << serviceVars, poolVars, impl, num_keys, iteration, max_iterations, retry, parsed, llm_calls,
                  userVars, last_request, useVars >>

(***************************************************************************)
(* backend/tool_user.py: agent_loop.                                       *)
(***************************************************************************)
\* the failure records of the LLM call; process_question's has no
\* error_type
Fail(kind) ==
  [success |-> FALSE, kind |-> kind, iterations |-> iteration,
   error_type |-> IF kind = "llm_error" THEN "absent" ELSE kind,
   response |-> "none"]

\* send_message_to_gemini_model returned a text: parse, record the action
LLMAnswer ==
  /\ impl = "tool_user"
  /\ pc = "llm"
  /\ \E provider \in ProviderOutcomes, form \in {"json", "unparsed_text"},
        fields \in UserAnswers :
       LET sent == SendMessageToGeminiModel(num_keys, provider)
           text == IF sent.text = "llm_text" THEN form ELSE sent.text
       IN  /\ ~sent.raised
           \* the fields matter for a JSON answer only
           /\ text # "json" => fields = [NoParsed EXCEPT !.action = "respond"]
           /\ sent.text # "llm_text" => form = "unparsed_text"
           /\ parsed' = [ParseGeminiResponse(text, fields)
                           EXCEPT !.provider = provider]
  /\ llm_calls' = llm_calls \cup {iteration}
  /\ actions_taken' = Append(actions_taken, parsed'.action)
  /\ pc' = "dispatch"
  /\ UNCHANGED << serviceVars, poolVars, impl, num_keys, iteration, max_iterations, retry, result,
                  internal_history, attempt, execution_result, use_stats,
                  tools, unavailable_tools, bugged_tools, last_request,
                  tool_files, useVars >>

\* send_message_to_gemini_model raised: the except branch of the retry loop
LLMError ==
  /\ impl = "tool_user"
  /\ pc = "llm"
  /\ llm_calls' = llm_calls \cup {iteration}
  /\ \E provider \in ProviderOutcomes :
       LET sent == SendMessageToGeminiModel(num_keys, provider)
       IN  /\ sent.raised
           /\ IF IsOverloadError(sent.error)
                THEN IF retry < max_retries - 1
                       THEN retry' = retry + 1 /\ UNCHANGED << pc, result >>
                       ELSE /\ result' = Fail("all_keys_overloaded")
                            /\ pc' = "done"
                            /\ UNCHANGED retry
                ELSE IF retry < max_retries - 1 /\ IsTransientError(sent.error)
                       THEN retry' = retry + 1 /\ UNCHANGED << pc, result >>
                       ELSE /\ result' = Fail("api_error")
                            /\ pc' = "done"
                            /\ UNCHANGED retry
  /\ UNCHANGED << serviceVars, poolVars, impl, num_keys, iteration, max_iterations, parsed,
                  actions_taken, internal_history, attempt, execution_result,
                  use_stats, tools, unavailable_tools, bugged_tools,
                  last_request, tool_files, useVars >>

\* action == 'respond'
Respond ==
  /\ impl = "tool_user"
  /\ pc = "dispatch"
  /\ parsed.action = "respond"
  /\ result' = [success |-> TRUE, kind |-> "respond", iterations |-> iteration,
                error_type |-> "absent", response |-> parsed.response]
  /\ pc' = "done"
  /\ UNCHANGED << serviceVars, poolVars, impl, num_keys, iteration, max_iterations, retry, parsed, llm_calls,
                  userVars, last_request, useVars >>

\* action == 'use_tool': entry of handle_use_tool
HandleUseTool ==
  /\ impl = "tool_user"
  /\ pc = "dispatch"
  /\ parsed.action = "use_tool"
  /\ internal_history' =
       Append(internal_history, Entry("assistant", "use_tool", parsed.tool_name))
  /\ attempt' = 1
  /\ execution_result' = NoExecution
  /\ use_stats' = [NoStats EXCEPT !.bugged_at_entry =
                                     IsToolBugged(bugged_tools, parsed.tool_name)]
  /\ pc' = "use_exec"
  /\ UNCHANGED << serviceVars, poolVars, impl, num_keys, iteration, max_iterations, retry, parsed, result,
                  llm_calls, actions_taken, tools, unavailable_tools,
                  bugged_tools, last_request, tool_files, useVars >>

\* one pass of the attempt loop of handle_use_tool: the execute request,
\* the server's handling of it, and the branch taken on the answer
ExecutionAttempt ==
  /\ impl = "tool_user"
  /\ pc = "use_exec"
  /\ \E transport \in Transports, sandbox \in SandboxOutcomes,
        direct \in DirectOutcomes :
       LET tool_name == parsed.tool_name
           response == ServerExecuteTool(bugged_tools, tool_name, sandbox, direct)
           reached == transport # "unreachable"
           answer == ExecuteToolWithDocker(transport, response)
           observation ==
             IF answer.success THEN "executed_successfully"
             ELSE IF answer.is_bugged THEN "marked_as_bugged"
             ELSE IF attempt < 2 THEN "retrying"
             ELSE "failed_after_retries"
       IN  /\ bugged_tools' = IF reached THEN response.bugged_tools
                              ELSE bugged_tools
           /\ last_request' =
                IF reached
                  THEN [server |-> "registry", tool |-> tool_name,
                        bugged_before |-> DOMAIN bugged_tools,
                        ran |-> IF response.ran_sandbox \/ response.ran_direct
                                  THEN {tool_name} ELSE {},
                        error |-> response.error]
                  ELSE last_request
           /\ execution_result' = answer
           /\ internal_history' =
                Append(internal_history, Entry("system", observation, tool_name))
           /\ IF observation = "retrying"
                THEN /\ attempt' = attempt + 1
                     /\ use_stats' = [use_stats EXCEPT !.requests = @ + 1,
                                                       !.waits = @ + 1]
                     /\ pc' = "use_exec"
                ELSE /\ attempt' = attempt
                     /\ use_stats' = [use_stats EXCEPT !.requests = @ + 1]
                     /\ pc' = "use_return"
  /\ UNCHANGED << serviceVars, poolVars, impl, num_keys, iteration, max_iterations, retry, parsed, result,
                  llm_calls, actions_taken, tools, unavailable_tools,
                  tool_files, useVars >>

\* agent_loop returning the result of a failed handle_use_tool
AfterUseTool_ReturnsError ==
  /\ impl = "tool_user"
  /\ pc = "use_return"
  /\ internal_history' = internal_history
  /\ IF ~execution_result.success
       THEN /\ result' = [success |-> FALSE, kind |-> "tool_error",
                          iterations |-> iteration,
                          error_type |-> "tool_error", response |-> "none"]
            /\ pc' = "done"
       ELSE /\ result' = result
            /\ pc' = "top"
  /\ UNCHANGED << serviceVars, poolVars, impl, num_keys, iteration, max_iterations, retry, parsed,
                  llm_calls, actions_taken, attempt, execution_result,
                  use_stats, tools, unavailable_tools, bugged_tools,
                  last_request, tool_files, useVars >>

\* back in agent_loop after handle_use_tool returned
AfterUseTool ==
  /\ impl = "tool_user"
  /\ pc = "use_return"
  /\ internal_history' =
       IF ~execution_result.success
         THEN Append(internal_history,
                     Entry("system", "tool_execution_failed", parsed.tool_name))
         ELSE internal_history
  /\ pc' = "top"
  /\ UNCHANGED << serviceVars, poolVars, impl, num_keys, iteration, max_iterations, retry, parsed, result,
                  llm_calls, actions_taken, attempt, execution_result,
                  use_stats, tools, unavailable_tools, bugged_tools,
                  last_request, tool_files, useVars >>

\* action == 'search_tools': handle_search_tools
HandleSearchTools ==
  /\ impl = "tool_user"
  /\ pc = "dispatch"
  /\ parsed.action = "search_tools"
  /\ \E found \in {"search_results", "no_tools_found"} :
       internal_history' =
         internal_history \o << Entry("assistant", "search_tools", NoName),
                                Entry("system", found, NoName) >>
  /\ pc' = "top"
  /\ UNCHANGED << serviceVars, poolVars, impl, num_keys, iteration, max_iterations, retry, parsed, result,
                  llm_calls, actions_taken, attempt, execution_result,
                  use_stats, tools, unavailable_tools, bugged_tools,
                  last_request, tool_files, useVars >>

\* action == 'create_tool': handle_create_tool.  saved is whether
\* save_tool_to_file could write the file; restarted is whether the
\* auto-reloader of a tool server run in development mode restarted the
\* server process on the new file.
HandleCreateTool ==
  /\ impl = "tool_user"
  /\ pc = "dispatch"
  /\ parsed.action = "create_tool"
  /\ \E saved \in BOOLEAN, restarted \in BOOLEAN, loads \in LoadOutcomes :
       LET reloaded == saved /\ (ReloadToolsOnServer \/ restarted)
           registry == LoadTools(DOMAIN tool_files \cup {parsed.tool_name}, loads)
       IN  /\ ~reloaded => loads = "tool"
           /\ ~saved => ~restarted
           /\ tool_files' =
                IF saved
                  THEN [n \in DOMAIN tool_files \cup {parsed.tool_name} |->
                          IF n = parsed.tool_name THEN parsed.code
                          ELSE tool_files[n]]
                  ELSE tool_files
           /\ internal_history' =
                internal_history \o
                  << Entry("assistant", "create_tool", parsed.tool_name),
                     Entry("system",
                           IF saved THEN "created_successfully"
                           ELSE "failed_to_create", parsed.tool_name) >>
           /\ tools' = IF reloaded THEN registry.tools ELSE tools
           /\ unavailable_tools' =
                IF reloaded THEN registry.unavailable_tools
                ELSE unavailable_tools
           /\ bugged_tools' =
                IF reloaded THEN registry.bugged_tools ELSE bugged_tools
  /\ pc' = "top"
  /\ UNCHANGED << serviceVars, poolVars, impl, num_keys, iteration, max_iterations, retry, parsed,
                  result, llm_calls, actions_taken, attempt, execution_result,
                  use_stats, last_request, useVars >>

\* any other action: the corrective observation
UnknownAction ==
  /\ impl = "tool_user"
  /\ pc = "dispatch"
  /\ parsed.action \notin {"respond", "use_tool", "search_tools", "create_tool"}
  /\ internal_history' =
       Append(internal_history, Entry("system", "unknown_action", NoName))
  /\ pc' = "top"
  /\ UNCHANGED << serviceVars, poolVars, impl, num_keys, iteration, max_iterations, retry, parsed, result,
                  llm_calls, actions_taken, attempt, execution_result,
                  use_stats, tools, unavailable_tools, bugged_tools,
                  last_request, tool_files, useVars >>

(***************************************************************************)
(* backend/tool_store.py: the code_tools table and its endpoints.          *)
(***************************************************************************)
\* a row as POST /tools/ creates it (column defaults of CodeTool)
NewTool(code, calls) ==
  [is_active |-> TRUE, is_bugged |-> FALSE, bug_count |-> 0,
   bug_details |-> << >>, execution_count |-> 0, code |-> code,
   calls |-> calls]

RECURSIVE ExecuteCode_LimitSucceeds(_, _, _, _)
\* execute_code where the run that the interpreter stops counts as a success
ExecuteCode_LimitSucceeds(st, name, raising, depth) ==
  IF depth >= RecursionLimit
    THEN [success |-> TRUE, ran |-> {}]
    ELSE
      LET callee == st[name].calls
          nested ==
            IF callee = NoName THEN [success |-> TRUE, ran |-> {}]
            ELSE IF callee \notin DOMAIN st THEN [success |-> FALSE, ran |-> {}]
            ELSE IF ~st[callee].is_active THEN [success |-> FALSE, ran |-> {}]
            ELSE IF st[callee].is_bugged THEN [success |-> FALSE, ran |-> {}]
            ELSE ExecuteCode_LimitSucceeds(st, callee, raising, depth + 1)
      IN  [success |-> nested.success /\ name \notin raising,
           ran |-> {name} \cup nested.ran]

RECURSIVE ExecuteCode(_, _, _, _)
\* CodeToolManager.execute_code on the code of tool name, with the injected
\* execute_tool of get_tool_executor.  raising is the set of tools whose
\* own code raises in this run; depth is the nesting depth.  The value is
\* [success, ran]: ran is the set of tools whose code was run.
ExecuteCode(st, name, raising, depth) ==
  IF depth >= RecursionLimit
    THEN [success |-> FALSE, ran |-> {}]
    ELSE
      LET callee == st[name].calls
          nested ==
            IF callee = NoName THEN [success |-> TRUE, ran |-> {}]
            ELSE IF callee \notin DOMAIN st THEN [success |-> FALSE, ran |-> {}]
            ELSE IF ~st[callee].is_active THEN [success |-> FALSE, ran |-> {}]
            ELSE IF st[callee].is_bugged THEN [success |-> FALSE, ran |-> {}]
            ELSE ExecuteCode(st, callee, raising, depth + 1)
      IN  [success |-> nested.success /\ name \notin raising,
           ran |-> {name} \cup nested.ran]

\* execute_tool_by_id with the execution statistics kept for every tool
\* whose code ran, the nested ones too
StoreExecute_RecordsNested(st, tool_name, raising) ==
  IF tool_name \notin DOMAIN st
    THEN [status |-> 404, success |-> FALSE, detail |-> "Tool not found",
          store |-> st, ran |-> {}]
  ELSE IF ~st[tool_name].is_active
    THEN [status |-> 400, success |-> FALSE, detail |-> "Tool is not active",
          store |-> st, ran |-> {}]
  ELSE IF st[tool_name].is_bugged
    THEN [status |-> 400, success |-> FALSE,
          detail |-> "Tool is marked as bugged", store |-> st, ran |-> {}]
  ELSE
    LET run == ExecuteCode(st, tool_name, raising, 0)
        updated ==
          [n \in DOMAIN st |->
             IF n \notin run.ran THEN st[n]
             ELSE IF run.success
               THEN [st[n] EXCEPT !.execution_count = @ + 1]
             ELSE [st[n] EXCEPT !.execution_count = @ + 1,
                                !.bug_count = @ + 1,
                                !.is_bugged = TRUE,
                                !.bug_details =
                                  IF @ = << >> THEN << "error" >> ELSE @]]
    IN  [status |-> 200, success |-> run.success, detail |-> "none",
         store |-> updated, ran |-> run.ran]

\* execute_tool_by_id without the is_bugged check
StoreExecute_NoBuggedCheck(st, tool_name, raising) ==
  IF tool_name \notin DOMAIN st
    THEN [status |-> 404, success |-> FALSE, detail |-> "Tool not found",
          store |-> st, ran |-> {}]
  ELSE IF ~st[tool_name].is_active
    THEN [status |-> 400, success |-> FALSE, detail |-> "Tool is not active",
          store |-> st, ran |-> {}]
  ELSE
    LET run == ExecuteCode(st, tool_name, raising, 0)
        counted == [st EXCEPT ![tool_name].execution_count = @ + 1]
        updated ==
          IF run.success THEN counted
          ELSE [counted EXCEPT ![tool_name].bug_count = @ + 1,
                               ![tool_name].is_bugged = TRUE,
                               ![tool_name].bug_details =
                                 IF @ = << >> THEN << "error" >> ELSE @]
    IN  [status |-> 200, success |-> run.success, detail |-> "none",
         store |-> updated, ran |-> run.ran]

\* POST /tools/name/{tool_name}/execute -> execute_tool_by_id.  The value is
\* [status, success, detail, store, ran].  bug_details is a plain JSON
\* column: the list assigned on the first failure is stored, the in-place
\* append of a later failure is not seen by the session and is not written.
StoreExecute(st, tool_name, raising) ==
  IF tool_name \notin DOMAIN st
    THEN [status |-> 404, success |-> FALSE, detail |-> "Tool not found",
          store |-> st, ran |-> {}]
  ELSE IF ~st[tool_name].is_active
    THEN [status |-> 400, success |-> FALSE, detail |-> "Tool is not active",
          store |-> st, ran |-> {}]
  ELSE IF st[tool_name].is_bugged
    THEN [status |-> 400, success |-> FALSE,
          detail |-> "Tool is marked as bugged", store |-> st, ran |-> {}]
  ELSE
    LET run == ExecuteCode(st, tool_name, raising, 0)
        counted == [st EXCEPT ![tool_name].execution_count = @ + 1]
        updated ==
          IF run.success THEN counted
          ELSE [counted EXCEPT ![tool_name].bug_count = @ + 1,
                               ![tool_name].is_bugged = TRUE,
                               ![tool_name].bug_details =
                                 IF @ = << >> THEN << "error" >> ELSE @]
    IN  [status |-> 200, success |-> run.success, detail |-> "none",
         store |-> updated, ran |-> run.ran]

\* the tools a GET /tools/search/{query} can answer with: exclude_bugged is
\* true by default, the scores decide which of the others are returned
SearchCandidates(st) == {n \in DOMAIN st : ~st[n].is_bugged}

\* GET /tools/ with active_only and exclude_bugged
ListTools(st) == {n \in DOMAIN st : st[n].is_active /\ ~st[n].is_bugged}

\* POST /tools/{id}/deactivate
DeactivateTool ==
  /\ impl = "tool_use"
  /\ admin_ops < MaxAdminOps
  /\ \E n \in DOMAIN store :
       store' = [store EXCEPT ![n].is_active = FALSE]
  /\ admin_ops' = admin_ops + 1
  /\ UNCHANGED << serviceVars, poolVars, impl, num_keys, pc, iteration, max_iterations, parsed, result,
                  llm_calls, userVars, last_request, history, fetched_tools >>

\* POST /tools/{id}/clear-bugs
ClearBugStatus ==
  /\ impl = "tool_use"
  /\ admin_ops < MaxAdminOps
  /\ \E n \in DOMAIN store :
       store' = [store EXCEPT ![n].is_bugged = FALSE]
  /\ admin_ops' = admin_ops + 1
  /\ UNCHANGED << serviceVars, poolVars, impl, num_keys, pc, iteration, max_iterations, parsed, result,
                  llm_calls, userVars, last_request, history, fetched_tools >>

(***************************************************************************)
(* backend/tool_use.py: ToolUseAgent.process_question and _execute_state.  *)
(***************************************************************************)
UseStates ==
  {"respond", "fetch_tool", "analyze_tools_for_composite", "use_tool",
   "create_tool", "exit_response"}

\* classes of the description of a create_tool action, by the keywords of
\* tool_use.py:709 and tool_use.py:780 it contains: none, one of the first
\* list only ("using"), one of both ("search"), one of the second only
Descriptions == {"plain", "using", "search", "find"}
SeemsCompositeBefore(desc) == desc \in {"using", "search"}
SeemsCompositeAfter(desc) == desc \in {"search", "find"}

\* any('code' in tool for tool in fetched_tools): every tool record the
\* store answers with (CodeToolResponse) carries its code
HasDetailedInfo(ft) == ft # {}

\* the answers the LLM can give to process_question, as parsed fields
UseAnswers ==
  { [NoParsed EXCEPT !.action = a] :
      a \in {"respond", "fetch_tool", "analyze_tools_for_composite",
             "exit_response", "bogus"} }
  \cup { [NoParsed EXCEPT !.action = "use_tool", !.tool_name = n] :
           n \in StoreNames }
  \cup { [NoParsed EXCEPT !.action = "create_tool", !.tool_name = n,
                          !.desc = d, !.valid = v] :
           n \in StoreNames, d \in Descriptions, v \in BOOLEAN }

\* _parse_gemini_response: text that is not JSON becomes an exit_response
\* whose final answer is 'JSON parsing error: ...', and JSON that AgentState
\* does not validate (an unknown state) one whose final answer is 'Error in
\* processing'
ParseAgentState(form, fields) ==
  IF form = "json" /\ fields.action \in UseStates
    THEN fields
    ELSE [NoParsed EXCEPT !.action = "exit_response",
                          !.response = IF form = "json" THEN "processing_error"
                                       ELSE "parsing_error"]

HistoryEntry(state, success, tools_found, generated_code) ==
  [state |-> state, success |-> success, tools_found |-> tools_found,
   generated_code |-> generated_code]

\* api_manager.generate_content returned in process_question
GenerateContent ==
  /\ impl = "tool_use"
  /\ pc = "llm"
  /\ \E form \in {"json", "unparsed_text"}, fields \in UseAnswers :
       \* the fields matter for a JSON answer only
       /\ form # "json" => fields = [NoParsed EXCEPT !.action = "respond"]
       /\ parsed' = ParseAgentState(form, fields)
  /\ llm_calls' = llm_calls \cup {iteration}
  /\ pc' = "dispatch"
  /\ UNCHANGED << serviceVars, poolVars, impl, num_keys, iteration, max_iterations, result, userVars,
                  last_request, useVars >>

\* api_manager.generate_content raised in process_question: a provider
\* error that is not of the overload class, or overload on every attempt
GenerateContentError ==
  /\ impl = "tool_use"
  /\ pc = "llm"
  /\ \E provider \in ProviderOutcomes \ {"ok"} :
       parsed' = [NoParsed EXCEPT !.provider = provider]
  /\ llm_calls' = llm_calls \cup {iteration}
  /\ result' = Fail("llm_error")
  /\ pc' = "done"
  /\ UNCHANGED << serviceVars, poolVars, impl, num_keys, iteration, max_iterations, userVars,
                  last_request, useVars >>

\* state "respond": _execute_state gives the direct answer, process_question
\* appends it to the history and goes on with the loop
StateRespond ==
  /\ impl = "tool_use"
  /\ pc = "dispatch"
  /\ parsed.action = "respond"
  /\ history' = Append(history, HistoryEntry("respond", TRUE, 0, NoName))
  /\ pc' = "top"
  /\ UNCHANGED << serviceVars, poolVars, impl, num_keys, iteration, max_iterations, parsed, result, llm_calls,
                  userVars, last_request, fetched_tools, store, admin_ops >>

\* state "exit_response": the final answer is returned
StateExitResponse ==
  /\ impl = "tool_use"
  /\ pc = "dispatch"
  /\ parsed.action = "exit_response"
  /\ history' = Append(history, HistoryEntry("exit_response", TRUE, 0, NoName))
  /\ result' = [success |-> TRUE, kind |-> "exit_response",
                iterations |-> iteration, error_type |-> "absent",
                response |-> parsed.response]
  /\ pc' = "done"
  /\ UNCHANGED << serviceVars, poolVars, impl, num_keys, iteration, max_iterations, parsed, llm_calls,
                  userVars, last_request, fetched_tools, store, admin_ops >>

\* state "fetch_tool": search with the query, or list when it is empty
StateFetchTool ==
  /\ impl = "tool_use"
  /\ pc = "dispatch"
  /\ parsed.action = "fetch_tool"
  /\ \E found \in (SUBSET SearchCandidates(store)) \cup {ListTools(store)} :
       /\ fetched_tools' = found
       /\ history' = Append(history,
            HistoryEntry("fetch_tool", TRUE, Cardinality(found), NoName))
  /\ pc' = "top"
  /\ UNCHANGED << serviceVars, poolVars, impl, num_keys, iteration, max_iterations, parsed, result, llm_calls,
                  userVars, last_request, store, admin_ops >>

\* state "analyze_tools_for_composite": the details of the named tools that
\* exist replace fetched_tools
StateAnalyzeTools ==
  /\ impl = "tool_use"
  /\ pc = "dispatch"
  /\ parsed.action = "analyze_tools_for_composite"
  /\ \E tool_names \in SUBSET StoreNames :
       LET detailed_tools == tool_names \cap DOMAIN store
       IN  /\ fetched_tools' = detailed_tools
           /\ history' = Append(history,
                HistoryEntry("analyze_tools_for_composite", TRUE,
                             Cardinality(detailed_tools), NoName))
  /\ pc' = "top"
  /\ UNCHANGED << serviceVars, poolVars, impl, num_keys, iteration, max_iterations, parsed, result, llm_calls,
                  userVars, last_request, store, admin_ops >>

\* state "use_tool": one execute request to the store
StateUseTool ==
  /\ impl = "tool_use"
  /\ pc = "dispatch"
  /\ parsed.action = "use_tool"
  /\ \E raising \in SUBSET StoreNames :
       LET answer == StoreExecute(store, parsed.tool_name, raising)
       IN  /\ store' = answer.store
           /\ last_request' =
                [server |-> "store", tool |-> parsed.tool_name,
                 bugged_before |-> {n \in DOMAIN store : store[n].is_bugged},
                 ran |-> answer.ran,
                 error |-> answer.detail]
           /\ history' = Append(history,
                HistoryEntry("use_tool", answer.success, 0, NoName))
  /\ pc' = "top"
  /\ UNCHANGED << serviceVars, poolVars, impl, num_keys, iteration, max_iterations, parsed, result, llm_calls,
                  userVars, fetched_tools, admin_ops >>

\* state "create_tool", the checks made before code is asked for
StateCreateToolRejected ==
  /\ impl = "tool_use"
  /\ pc = "dispatch"
  /\ parsed.action = "create_tool"
  /\ \/ fetched_tools = {}
     \/ SeemsCompositeBefore(parsed.desc) /\ ~HasDetailedInfo(fetched_tools)
  /\ history' = Append(history, HistoryEntry("create_tool", FALSE, 0, NoName))
  /\ pc' = "top"
  /\ UNCHANGED << serviceVars, poolVars, impl, num_keys, iteration, max_iterations, parsed, result, llm_calls,
                  userVars, last_request, fetched_tools, store, admin_ops >>

StateCreateToolAskCode ==
  /\ impl = "tool_use"
  /\ pc = "dispatch"
  /\ parsed.action = "create_tool"
  /\ fetched_tools # {}
  /\ ~(SeemsCompositeBefore(parsed.desc) /\ ~HasDetailedInfo(fetched_tools))
  /\ pc' = "create_llm"
  /\ UNCHANGED << serviceVars, poolVars, impl, num_keys, iteration, max_iterations, parsed, result, llm_calls,
                  userVars, last_request, useVars >>

\* state "create_tool", from the answer of the code request on: validation
\* of the generated code, ToolCreation, POST /tools/.  raised is whether
\* generate_content raised.
StateCreateToolGenerated ==
  /\ impl = "tool_use"
  /\ pc = "create_llm"
  /\ llm_calls' = llm_calls \cup {iteration}
  /\ \E raised \in BOOLEAN, generated_code \in CodeWords,
        calls \in StoreNames \cup {NoName} :
       LET has_execute_tool == calls # NoName
           name == parsed.tool_name
           outcome ==
             IF raised THEN "exception"
             ELSE IF HasForbiddenPattern(generated_code) THEN "placeholders"
             ELSE IF SeemsCompositeAfter(parsed.desc) /\ ~has_execute_tool
               THEN "not_composite"
             ELSE IF ~parsed.valid THEN "exception"
             ELSE IF name \in DOMAIN store THEN "exception"
             ELSE "created"
       IN  /\ raised => generated_code = "return_value" /\ calls = NoName
           /\ parsed' = NoParsed
           /\ store' =
                IF outcome = "created"
                  THEN [n \in DOMAIN store \cup {name} |->
                          IF n = name THEN NewTool(generated_code, calls)
                          ELSE store[n]]
                  ELSE store
           /\ fetched_tools' =
                IF outcome = "created" THEN fetched_tools \cup {name}
                ELSE fetched_tools
           /\ history' = Append(history,
                HistoryEntry("create_tool", outcome = "created", 0,
                             IF outcome = "created" THEN generated_code
                             ELSE NoName))
  /\ pc' = "top"
  /\ UNCHANGED << serviceVars, poolVars, impl, num_keys, iteration, max_iterations, result, userVars,
                  last_request, admin_ops >>

(***************************************************************************)
(* backend/frontend_proxy.py and backend/tool_use.py: class                *)
(* GeminiAPIManager, the key pool.  Time is in seconds.                    *)
(***************************************************************************)
\* MIN_REQUEST_INTERVAL of tool_use.py
MIN_REQUEST_INTERVAL == 5
\* MIN_REQUEST_INTERVAL local to _wait_for_rate_limit of frontend_proxy.py
PROXY_MIN_REQUEST_INTERVAL == 3
\* the cooldown of a key after an overload (now - last_fail > 60)
KEY_COOLDOWN == 60
\* the sleep of _get_next_available_client when every key is in cooldown
ALL_COOLDOWN_SLEEP == 30

\* the two classes of that name
Managers == {"frontend_proxy", "tool_use"}

Queries == 1 .. NumQueries

\* time.time() as the process starts: seconds since the epoch, more than a
\* cooldown after 0
StartTime == KEY_COOLDOWN + 1

\* seconds a provider request can take
Durations == {0, 1, KEY_COOLDOWN + 1}

\* seconds between the return of one call and the next call
IdleGaps == {1, KEY_COOLDOWN + 1}

\* GeminiAPIManager.__init__
NewManager(variant, n) ==
  [variant |-> variant, size |-> n, current_index |-> 0,
   last_request_time |-> 0, key_cooldowns |-> EmptyFun]

MinInterval(m) ==
  IF m.variant = "frontend_proxy" THEN PROXY_MIN_REQUEST_INTERVAL
  ELSE MIN_REQUEST_INTERVAL

\* max_retries of generate_content when the caller gives none
PoolMaxRetries(m) ==
  IF m.variant = "frontend_proxy" THEN m.size * 2 ELSE m.size

\* the keyword test of generate_content on the provider's message:
\* 'overload', 'quota', 'rate limit', '429', '503'
IsPoolOverload(outcome) == outcome = "overloaded"

\* a key whose 60 seconds after its last overload are not over at time t
Cooling(m, index, t) ==
  /\ index \in DOMAIN m.key_cooldowns
  /\ ~(t - m.key_cooldowns[index] > KEY_COOLDOWN)

\* _get_next_available_client of frontend_proxy.py up to its sleep: the
\* scan from current_index for a key not in cooldown.  steps counts the
\* advances of current_index the scan makes.
GetNextAvailableClient(m, t) ==
  LET n == m.size
      last_fail(c) == IF c \in DOMAIN m.key_cooldowns
                        THEN m.key_cooldowns[c] ELSE 0
      candidate(k) == (m.current_index + k) % n
      usable == {k \in 0 .. n - 1 : t - last_fail(candidate(k)) > KEY_COOLDOWN}
  IN  IF usable # {}
        THEN LET k == CHOOSE x \in usable : \A y \in usable : x <= y
             IN  [found |-> TRUE, key_number |-> candidate(k) + 1,
                  current_index |-> (candidate(k) + 1) % n, steps |-> k + 1]
        ELSE [found |-> FALSE, key_number |-> 1,
              current_index |-> m.current_index, steps |-> n]

\* _get_next_client without the wrap of current_index
GetNextClient_NoWrap(m) ==
  [found |-> TRUE, key_number |-> m.current_index + 1,
   current_index |-> m.current_index + 1, steps |-> 1]

\* _get_next_client of tool_use.py
GetNextClient(m) ==
  [found |-> TRUE, key_number |-> m.current_index + 1,
   current_index |-> (m.current_index + 1) % m.size, steps |-> 1]

IdleCaller ==
  [pc |-> "idle", attempt |-> 0, wake |-> 0, key_number |-> 0,
   new_index |-> 0, steps |-> 0, found |-> FALSE]

NoPoolObs ==
  [calls |-> 0, idled |-> FALSE, prev_return |-> 0, last_return |-> 0,
   prev_query |-> 0, last_query |-> 0, advances |-> 0,
   handed |-> [key_number |-> 0, cooling |-> FALSE, waited |-> FALSE],
   last_outcome |-> "none"]

\* The handlers of frontend_proxy.py that reach the manager are coroutines
\* of the one event loop of the process, and generate_content is called
\* without an await inside it; tool_use.py is a command-line loop.  A query
\* that entered generate_content therefore keeps the thread, through its
\* sleeps too, until generate_content returns or raises.
MayRun(i) == running \in {0, i}

\* generate_content entered by a query run on a thread of its own
PoolCall_Threaded(i) ==
  /\ callers[i].pc = "idle"
  /\ pool_obs.calls < MaxCalls
  /\ running' = 0
  /\ callers' = [callers EXCEPT ![i] = [IdleCaller EXCEPT !.pc = "wait"]]
  /\ pool_obs' = [pool_obs EXCEPT !.calls = @ + 1, !.idled = FALSE]
  /\ UNCHANGED << serviceVars, agentVars, api_manager, now >>

\* generate_content entered
PoolCall(i) ==
  /\ callers[i].pc = "idle"
  /\ pool_obs.calls < MaxCalls
  /\ running = 0
  /\ running' = i
  /\ callers' = [callers EXCEPT ![i] = [IdleCaller EXCEPT !.pc = "wait"]]
  /\ pool_obs' = [pool_obs EXCEPT !.calls = @ + 1, !.idled = FALSE]
  /\ UNCHANGED << serviceVars, agentVars, api_manager, now >>

\* _wait_for_rate_limit up to its sleep
PoolWaitForRateLimit(i) ==
  /\ MayRun(i)
  /\ callers[i].pc = "wait"
  /\ LET current_time == now
         time_since_last == current_time - api_manager.last_request_time
         interval == MinInterval(api_manager)
         sleep_time ==
           IF time_since_last < interval THEN interval - time_since_last
           ELSE IF api_manager.variant = "tool_use" THEN interval
           ELSE 0
     IN  callers' = [callers EXCEPT ![i].pc = "rate_sleep",
                                    ![i].wake = now + sleep_time]
  /\ UNCHANGED << serviceVars, agentVars, api_manager, now, running, pool_obs >>

\* _wait_for_rate_limit without its sleep
PoolRateLimitReturn_NoSleep(i) ==
  /\ MayRun(i)
  /\ callers[i].pc = "rate_sleep"
  /\ api_manager' = [api_manager EXCEPT !.last_request_time = now]
  /\ pool_obs' = [pool_obs EXCEPT !.prev_return = pool_obs.last_return,
                                  !.last_return = now,
                                  !.prev_query = pool_obs.last_query,
                                  !.last_query = i]
  /\ callers' = [callers EXCEPT ![i].pc = "select"]
  /\ UNCHANGED << serviceVars, agentVars, now, running >>

\* _wait_for_rate_limit after its sleep: the timestamp, and the return
PoolRateLimitReturn(i) ==
  /\ MayRun(i)
  /\ callers[i].pc = "rate_sleep"
  /\ now >= callers[i].wake
  /\ api_manager' = [api_manager EXCEPT !.last_request_time = now]
  /\ pool_obs' = [pool_obs EXCEPT !.prev_return = pool_obs.last_return,
                                  !.last_return = now,
                                  !.prev_query = pool_obs.last_query,
                                  !.last_query = i]
  /\ callers' = [callers EXCEPT ![i].pc = "select"]
  /\ UNCHANGED << serviceVars, agentVars, now, running >>

\* _get_next_available_client / _get_next_client: current_index is read
PoolSelectRead(i) ==
  /\ MayRun(i)
  /\ callers[i].pc = "select"
  /\ LET got == IF api_manager.variant = "frontend_proxy"
                  THEN GetNextAvailableClient(api_manager, now)
                  ELSE GetNextClient(api_manager)
     IN  callers' = [callers EXCEPT ![i].pc = "select_write",
                                    ![i].found = got.found,
                                    ![i].key_number = got.key_number,
                                    ![i].new_index = got.current_index,
                                    ![i].steps = got.steps]
  /\ UNCHANGED << serviceVars, agentVars, api_manager, now, running, pool_obs >>

\* _get_next_available_client / _get_next_client: current_index is written;
\* the key found is returned, or the sleep for the cooldowns begins
PoolSelectWrite(i) ==
  /\ MayRun(i)
  /\ callers[i].pc = "select_write"
  /\ api_manager' = [api_manager EXCEPT !.current_index = callers[i].new_index]
  /\ IF callers[i].found
       THEN /\ callers' = [callers EXCEPT ![i].pc = "request"]
            /\ pool_obs' =
                 [pool_obs EXCEPT
                    !.advances = (@ + callers[i].steps) % api_manager.size,
                    !.handed = [key_number |-> callers[i].key_number,
                                cooling |-> Cooling(api_manager,
                                              callers[i].key_number - 1, now),
                                waited |-> FALSE]]
       ELSE /\ callers' = [callers EXCEPT ![i].pc = "cooldown_sleep",
                                          ![i].wake = now + ALL_COOLDOWN_SLEEP]
            /\ pool_obs' =
                 [pool_obs EXCEPT
                    !.advances = (@ + callers[i].steps) % api_manager.size]
  /\ UNCHANGED << serviceVars, agentVars, now, running >>

\* _get_next_available_client after its sleep: return self.clients[0], 1
PoolCooldownWake(i) ==
  /\ MayRun(i)
  /\ callers[i].pc = "cooldown_sleep"
  /\ now >= callers[i].wake
  /\ callers' = [callers EXCEPT ![i].pc = "request", ![i].key_number = 1]
  /\ pool_obs' = [pool_obs EXCEPT
                    !.handed = [key_number |-> 1,
                                cooling |-> Cooling(api_manager, 0, now),
                                waited |-> TRUE]]
  /\ UNCHANGED << serviceVars, agentVars, api_manager, now, running >>

\* client.models.generate_content is called with the key
PoolSendRequest(i) ==
  /\ MayRun(i)
  /\ callers[i].pc = "request"
  /\ \E d \in Durations :
       callers' = [callers EXCEPT ![i].pc = "in_flight", ![i].wake = now + d]
  /\ UNCHANGED << serviceVars, agentVars, api_manager, now, running, pool_obs >>

\* the provider answered or raised: the rest of the loop body of
\* generate_content
PoolRequestReturns(i) ==
  /\ MayRun(i)
  /\ callers[i].pc = "in_flight"
  /\ now >= callers[i].wake
  /\ \E outcome \in ProviderOutcomes \ {"timeout"} :
       LET index == callers[i].key_number - 1
           key_cooldowns ==
             IF api_manager.variant # "frontend_proxy"
               THEN api_manager.key_cooldowns
             ELSE IF outcome = "ok"
               THEN [c \in DOMAIN api_manager.key_cooldowns \ {index} |->
                       api_manager.key_cooldowns[c]]
             ELSE IF IsPoolOverload(outcome)
               THEN [c \in DOMAIN api_manager.key_cooldowns \cup {index} |->
                       IF c = index THEN now ELSE api_manager.key_cooldowns[c]]
             ELSE api_manager.key_cooldowns
           again == /\ IsPoolOverload(outcome)
                    /\ callers[i].attempt < PoolMaxRetries(api_manager) - 1
           ending == IF outcome = "ok" THEN "response"
                     ELSE IF IsPoolOverload(outcome) THEN "exhausted"
                     ELSE "raised"
       IN  /\ api_manager' = [api_manager EXCEPT !.key_cooldowns = key_cooldowns]
           /\ IF again
                THEN /\ callers' = [callers EXCEPT ![i].pc = "wait",
                                                   ![i].attempt = @ + 1]
                     /\ UNCHANGED << running, pool_obs >>
                ELSE /\ callers' = [callers EXCEPT ![i] = IdleCaller]
                     /\ running' = 0
                     /\ pool_obs' = [pool_obs EXCEPT !.last_outcome = ending]
  /\ UNCHANGED << serviceVars, agentVars, now >>

\* time passes while a query sleeps or waits for the provider
PoolTick ==
  /\ \A i \in Queries :
       callers[i].pc \in {"idle", "rate_sleep", "cooldown_sleep", "in_flight"}
  /\ \E i \in Queries :
       /\ callers[i].pc \in {"rate_sleep", "cooldown_sleep", "in_flight"}
       /\ callers[i].wake > now
       /\ callers[i].wake <= StartTime + MaxElapsed
       /\ now' = callers[i].wake
  /\ UNCHANGED << serviceVars, agentVars, api_manager, running, callers, pool_obs >>

\* time passes between two calls
PoolIdleWait ==
  /\ \A i \in Queries : callers[i].pc = "idle"
  /\ ~pool_obs.idled
  /\ pool_obs.calls < MaxCalls
  /\ \E gap \in IdleGaps :
       /\ now + gap <= StartTime + MaxElapsed
       /\ now' = now + gap
  /\ pool_obs' = [pool_obs EXCEPT !.idled = TRUE]
  /\ UNCHANGED << serviceVars, agentVars, api_manager, running, callers >>

(***************************************************************************)
(* backend/docker_executor.py: DockerToolExecutor.                         *)
(***************************************************************************)
\* a line of the combined output (stdout and stderr) of the container:
\* text that json.loads rejects, the object {}, an object without a success
\* field, the envelope the script prints after the tool returned, and the
\* envelope it prints after the tool raised
OutputLines ==
  {"text", "empty_object", "object", "success_envelope", "error_envelope"}

Outputs == UNION { [1 .. n -> OutputLines] : n \in 0 .. MaxLines }

\* line.startswith('{') and json.loads(line) does not raise
ParsesAsObject(line) == line # "text"

\* the truth value of the dict json.loads gives: an empty dict is false
IsTrue(json_output) == json_output \notin {"none", "empty_object"}

RECURSIVE ScanReversed(_, _)
\* for line in reversed(lines): the first line json.loads accepts ends the
\* scan; "none" stands for json_output = None
ScanReversed(lines, k) ==
  IF k = 0 THEN "none"
  ELSE IF ParsesAsObject(lines[k]) THEN lines[k]
  ELSE ScanReversed(lines, k - 1)

DockerResult(success, envelope, error, in_docker, exit_code) ==
  [success |-> success, envelope |-> envelope, error |-> error,
   executed_in_docker |-> in_docker, exit_code |-> exit_code]

\* the parse of the container logs in execute_tool
ParseToolOutput(lines) ==
  LET json_output == ScanReversed(lines, Len(lines))
  IN  IF IsTrue(json_output)
        THEN DockerResult(json_output = "success_envelope", json_output,
                          IF json_output = "error_envelope" THEN "tool_raised"
                          ELSE "none",
                          TRUE, TRUE)
        ELSE DockerResult(FALSE, "none", "Failed to parse tool output",
                          TRUE, TRUE)

\* what client.containers.run and container.wait do: the container exits,
\* container.wait times out, the image is not found, the daemon fails to
\* start the container it created, the daemon fails before creating it
RunOutcomes ==
  {"exited", "wait_timeout", "image_not_found", "start_failed", "run_failed"}

\* what the cleanup of the finally block meets; a failure of
\* container.remove or shutil.rmtree is caught and passed over
Cleanups == {"ok", "remove_failed", "rmtree_failed"}

\* DockerToolExecutor.execute_tool.  The value is the result returned and
\* what exists after the return: the scratch directory, the container.
DockerExecuteTool(client, run, lines, cleanup) ==
  IF ~client
    THEN [result |-> DockerResult(FALSE, "none", "Docker is not available",
                                  FALSE, FALSE),
          temp_dir |-> FALSE, container |-> FALSE]
    ELSE
      LET \* containers.run returned: the variable container is bound
          bound == run \in {"exited", "wait_timeout"}
          created == bound \/ run = "start_failed"
          returned ==
            IF run = "exited" THEN ParseToolOutput(lines)
            ELSE IF run = "image_not_found"
              THEN DockerResult(FALSE, "none", "Docker image not found",
                                FALSE, FALSE)
            ELSE DockerResult(FALSE, "none", "Docker execution failed",
                              TRUE, FALSE)
      IN  [result |-> returned,
           temp_dir |-> cleanup = "rmtree_failed",
           container |-> IF bound THEN cleanup = "remove_failed"
                         ELSE created]

(***************************************************************************)
(* backend/tool_server.py and backend/tool_search.py: the requests the     *)
(* registry server serves, and its search engine.                          *)
(***************************************************************************)
\* names of the files of the tools directory and of the tools they define
ModuleNames == {"flaky", "reverse_text"}

\* what importing a file of the tools directory gives: the import raises,
\* or the module defines one decorated function, whose name is tool_name,
\* and _extract_tool_info returns or raises on it
Modules ==
  { [stem |-> f, imported |-> FALSE, tool_name |-> f, extracted |-> FALSE] :
      f \in ModuleNames }
  \cup { [stem |-> f, imported |-> TRUE, tool_name |-> n, extracted |-> e] :
           f \in ModuleNames, n \in ModuleNames, e \in BOOLEAN }

\* the contents of the tools directory: at most one file of each name
Directories ==
  { d \in SUBSET Modules : \A m1, m2 \in d : m1.stem = m2.stem => m1 = m2 }

\* ToolRegistry.__init__ and _load_tools on a directory
LoadToolDirectory(directory) ==
  [tools |-> { m.tool_name : m \in { x \in directory :
                                       x.imported /\ x.extracted } },
   unavailable_tools |->
     { m.tool_name : m \in { x \in directory : x.imported /\ ~x.extracted } }
     \cup { m.stem : m \in { x \in directory : ~x.imported } },
   bugged_tools |-> EmptyFun]

\* ToolRegistry.get_availability_status
GetAvailabilityStatus ==
  [total_tools |-> Cardinality(tools) + Cardinality(unavailable_tools),
   available_tool_names |-> tools,
   unavailable_tool_names |-> unavailable_tools]

\* ToolRegistry.clear_tool_bug_status
ClearToolBugStatus(bt, tool_name) ==
  [n \in DOMAIN bt \ {tool_name} |-> bt[n]]

\* the failures the registry holds of a tool
Failures(bt, tool_name) ==
  IF tool_name \in DOMAIN bt THEN bt[tool_name] ELSE << >>

\* the category of a tool (the argument of its decorator)
Category(tool_name) == IF tool_name = "flaky" THEN "general" ELSE "text"
\* the category argument of a search; "none" is no category
Categories == {"none", "text"}

\* final_scores of a search, in hundredths; a result needs more than 0.01
Scores == {1, 40, 70}
SCORE_THRESHOLD == 1

\* ToolSearchEngine.__init__ and _build_search_index: the names of
\* registry.list_tools(), which are all the names of registry.tools
BuildSearchIndex(names) == [tool_names |-> names]

\* the orders np.argsort(final_scores)[::-1] can give: the names, highest
\* score first
Rankings(names, score) ==
  { r \in [1 .. Cardinality(names) -> names] :
      /\ \A i, j \in DOMAIN r : i # j => r[i] # r[j]
      /\ \A i, j \in DOMAIN r : i < j => score[r[i]] >= score[r[j]] }

RECURSIVE SearchLoop(_, _, _, _, _, _)
\* the result loop of ToolSearchEngine.search from position k of the order
SearchLoop(order, k, results, score, top_k, category) ==
  IF k > Len(order) THEN results
  ELSE IF category # "none" /\ Category(order[k]) # category
    THEN SearchLoop(order, k + 1, results, score, top_k, category)
  ELSE
    LET appended == IF score[order[k]] > SCORE_THRESHOLD
                      THEN Append(results, order[k]) ELSE results
    IN  IF Len(appended) >= top_k THEN appended
        ELSE SearchLoop(order, k + 1, appended, score, top_k, category)

\* ToolSearchEngine.search on an order of the indexed names
EngineSearch(order, score, top_k, category) ==
  IF Len(order) = 0 THEN << >>
  ELSE SearchLoop(order, 1, << >>, score, top_k, category)

NoServed ==
  [kind |-> "none", tool |-> NoName, available |-> FALSE, bugged |-> FALSE,
   use_docker |-> FALSE, client |-> FALSE, sandbox |-> "off",
   direct |-> "ok", status |-> 0, success |-> FALSE,
   executed_in_docker |-> FALSE, docker_fallback |-> FALSE,
   ran_sandbox |-> FALSE, ran_direct |-> FALSE, run |-> "none",
   lines |-> << >>, result |-> DockerResult(FALSE, "none", "none", FALSE, FALSE),
   temp_dir |-> FALSE, container |-> FALSE, failures |-> << >>,
   results |-> << >>, score |-> EmptyFun, top_k |-> 0, category |-> "none",
   exclude_bugged |-> FALSE, bugged_names |-> {}]

\* how the execute endpoint sees the sandbox run: not attempted, succeeded,
\* the tool raised in the container, or anything else
SandboxOutcome(use_docker, client, docker_result) ==
  IF ~(use_docker /\ client) THEN "off"
  ELSE IF docker_result.success THEN "success"
  ELSE IF docker_result.envelope = "error_envelope" THEN "tool_error"
  ELSE "substrate_error"

\* POST /tools/<tool_name>/execute.  The inputs that the handler does not
\* consult have one value; direct = "missing_params" is a request that
\* omits a required parameter, which no sandbox run answers with success.
ServerExecuteRequest ==
  /\ \E tool_name \in ModuleNames, use_docker \in BOOLEAN :
       LET client == docker_executor.client
           reached == /\ tool_name \in tools
                      /\ ~IsToolBugged(bugged_tools, tool_name)
           attempted == reached /\ use_docker /\ client
       IN  \E run \in IF attempted THEN RunOutcomes ELSE {"exited"} :
           \E lines \in IF attempted /\ run = "exited" THEN Outputs
                        ELSE {<< >>} :
           \E cleanup \in IF ~attempted THEN {"ok"}
                          ELSE IF run \in {"exited", "wait_timeout"}
                            THEN Cleanups
                          ELSE Cleanups \ {"remove_failed"} :
             LET docker == DockerExecuteTool(client, run, lines, cleanup)
                 sandbox == SandboxOutcome(attempted, client, docker.result)
             IN  \E direct \in IF ~reached \/ sandbox = "success" THEN {"ok"}
                               ELSE DirectOutcomes :
                   LET response ==
                         ServerExecuteTool(bugged_tools, tool_name, sandbox,
                                           direct)
                   IN  /\ bugged_tools' = response.bugged_tools
                       /\ served' =
                            [NoServed EXCEPT
                               !.kind = "execute", !.tool = tool_name,
                               !.available = tool_name \in tools,
                               !.bugged = IsToolBugged(bugged_tools, tool_name),
                               !.use_docker = use_docker, !.client = client,
                               !.sandbox = sandbox, !.direct = direct,
                               !.status = response.status,
                               !.success = response.success,
                               !.executed_in_docker =
                                  response.executed_in_docker,
                               !.docker_fallback = response.docker_fallback,
                               !.ran_sandbox = response.ran_sandbox,
                               !.ran_direct = response.ran_direct,
                               !.temp_dir = attempted /\ docker.temp_dir,
                               !.container = attempted /\ docker.container]
  /\ UNCHANGED << poolVars, loopVars, tools, unavailable_tools, store,
                  docker_executor, search_engine,
                  sessionVars >>

\* a call of docker_executor.execute_tool
DockerExecuteCall ==
  /\ LET client == docker_executor.client
     IN  \E run \in IF client THEN RunOutcomes ELSE {"exited"} :
         \E lines \in IF client /\ run = "exited" THEN Outputs ELSE {<< >>} :
         \E cleanup \in IF ~client THEN {"ok"}
                        ELSE IF run \in {"exited", "wait_timeout"}
                          THEN Cleanups
                        ELSE Cleanups \ {"remove_failed"} :
           LET docker == DockerExecuteTool(client, run, lines, cleanup)
           IN  served' =
                 [NoServed EXCEPT
                    !.kind = "docker", !.client = client, !.run = run,
                    !.lines = lines, !.result = docker.result,
                    !.temp_dir = docker.temp_dir,
                    !.container = docker.container]
  /\ UNCHANGED << poolVars, loopVars, tools, unavailable_tools, bugged_tools,
                  store, docker_executor, search_engine,
                  sessionVars >>

\* POST /tools/<tool_name>/clear_bug
ClearToolBug ==
  /\ \E tool_name \in ModuleNames :
       /\ bugged_tools' = ClearToolBugStatus(bugged_tools, tool_name)
       /\ served' = [NoServed EXCEPT
                       !.kind = "clear_bug", !.tool = tool_name,
                       !.bugged = IsToolBugged(bugged_tools, tool_name),
                       !.failures = Failures(bugged_tools, tool_name)]
  /\ UNCHANGED << poolVars, loopVars, tools, unavailable_tools, store,
                  docker_executor, search_engine,
                  sessionVars >>

\* search_engine.search, which get_tools_for_llm_context calls with the
\* query and max_tools; score is what the query scores on each tool
SearchEngineSearch ==
  /\ \E score \in [search_engine.tool_names -> Scores],
        top_k \in 0 .. MaxTopK, category \in Categories :
       \E order \in Rankings(search_engine.tool_names, score) :
         served' = [NoServed EXCEPT
                      !.kind = "engine_search",
                      !.results = EngineSearch(order, score, top_k, category),
                      !.score = score, !.top_k = top_k,
                      !.category = category, !.exclude_bugged = TRUE,
                      !.bugged_names = DOMAIN bugged_tools]
  /\ UNCHANGED << poolVars, loopVars, tools, unavailable_tools, bugged_tools,
                  store, docker_executor, search_engine,
                  sessionVars >>

(***************************************************************************)
(* Specification.                                                          *)
(***************************************************************************)
InitialStores ==
  { EmptyFun,
    "web_search" :> NewTool("return_value", NoName),
    ("web_search" :> NewTool("return_value", NoName))
      @@ ("reverse_text" :> NewTool("return_value", "web_search")),
    \* two composites that call each other
    ("web_search" :> NewTool("return_value", "reverse_text"))
      @@ ("reverse_text" :> NewTool("return_value", "web_search")) }

AgentInit ==
  /\ impl \in {"tool_user", "tool_use"}
  \* a GeminiAPIManager cannot be constructed without keys
  /\ num_keys \in IF impl = "tool_user" THEN 0 .. NumKeys ELSE 1 .. NumKeys
  /\ pc = "top"
  /\ iteration = 0
  /\ max_iterations \in IF impl = "tool_user" THEN 0 .. MaxIterations
                        ELSE {MAX_ITERATIONS}
  /\ retry = 0
  /\ parsed = NoParsed
  /\ result = NoResult
  /\ llm_calls = {}
  /\ actions_taken = << >>
  /\ internal_history = << >>
  /\ attempt = 0
  /\ execution_result = NoExecution
  /\ use_stats = NoStats
  /\ tools = InitialTools
  /\ unavailable_tools = InitialUnavailableTools
  /\ bugged_tools = EmptyFun
  /\ last_request = NoRequest
  /\ tool_files = EmptyFun
  /\ history = << >>
  /\ fetched_tools = {}
  /\ store \in IF impl = "tool_use" THEN InitialStores ELSE {EmptyFun}
  /\ admin_ops = 0

\* the key pool when no query uses it
PoolIdle ==
  /\ api_manager = NewManager("tool_use", 1)
  /\ now = StartTime
  /\ running = 0
  /\ callers = [i \in Queries |-> IdleCaller]
  /\ pool_obs = NoPoolObs

Requests == 1 .. NumRequests
Clients == 1 .. NumClients

\* a thread of the tool server that serves no request
IdleHandler ==
  [pc |-> "idle", tool |-> NoName, present |-> FALSE, outcome |-> "none"]

\* no WebSocket session
NoSession ==
  [pc |-> "closed", iteration |-> 0, sent |-> << >>, connected |-> FALSE,
   chunks |-> 0, state |-> NoName, llm_failed |-> {}]

\* a client of the tool store with no request in flight
IdleSession == [pc |-> "idle", name |-> NoName]

\* no request answered yet and no sequence of requests followed
NoAnswer == [client |-> 0, op |-> "none", name |-> NoName, status |-> 0]

NoCrud ==
  [stage |-> 0, client |-> 0, name |-> NoName, id |-> 0, before |-> {},
   after |-> {}, statuses |-> << >>, answer |-> NoAnswer]

\* no execute request in flight, no WebSocket session, an empty table
SessionIdle ==
  /\ handlers = [r \in Requests |-> IdleHandler]
  /\ websocket = NoSession
  /\ db_rows = {}
  /\ registry_table = {}
  /\ db_sessions = [c \in Clients |-> IdleSession]
  /\ crud = NoCrud

\* the servers when no request of this kind is made to them
ServiceIdle ==
  /\ docker_executor = [client |-> TRUE]
  /\ search_engine = BuildSearchIndex(InitialTools)
  /\ served = NoServed
  /\ SessionIdle

Init == AgentInit /\ PoolIdle /\ ServiceIdle

Next ==
  \/ StartIteration
  \/ MaxIterationsReached
  \/ LLMAnswer
  \/ LLMError
  \/ Respond
  \/ HandleUseTool
  \/ ExecutionAttempt
  \/ AfterUseTool
  \/ HandleSearchTools
  \/ HandleCreateTool
  \/ UnknownAction
  \/ GenerateContent
  \/ GenerateContentError
  \/ StateRespond
  \/ StateExitResponse
  \/ StateFetchTool
  \/ StateAnalyzeTools
  \/ StateUseTool
  \/ StateCreateToolRejected
  \/ StateCreateToolAskCode
  \/ StateCreateToolGenerated
  \/ DeactivateTool
  \/ ClearBugStatus

Spec == Init /\ [][Next]_vars

\* the agent loop is one sequential thread: a step it can take is taken
AgentStep ==
  \/ StartIteration
  \/ MaxIterationsReached
  \/ LLMAnswer
  \/ LLMError
  \/ Respond
  \/ HandleUseTool
  \/ ExecutionAttempt
  \/ AfterUseTool
  \/ HandleSearchTools
  \/ HandleCreateTool
  \/ UnknownAction
  \/ GenerateContent
  \/ GenerateContentError
  \/ StateRespond
  \/ StateExitResponse
  \/ StateFetchTool
  \/ StateAnalyzeTools
  \/ StateUseTool
  \/ StateCreateToolRejected
  \/ StateCreateToolAskCode
  \/ StateCreateToolGenerated

FairSpec == Spec /\ WF_vars(AgentStep)

\* the agent loop when no query runs it
AgentIdle ==
  /\ AgentInit
  /\ impl = "tool_use"
  /\ num_keys = 1
  /\ store = EmptyFun

PoolInit ==
  /\ AgentIdle
  /\ ServiceIdle
  /\ api_manager \in {NewManager(v, n) : v \in Managers, n \in 1 .. PoolKeys}
  /\ now = StartTime
  /\ running = 0
  /\ callers = [i \in Queries |-> IdleCaller]
  /\ pool_obs = NoPoolObs

PoolNext ==
  \/ \E i \in Queries : PoolCall(i)
  \/ \E i \in Queries : PoolWaitForRateLimit(i)
  \/ \E i \in Queries : PoolRateLimitReturn(i)
  \/ \E i \in Queries : PoolSelectRead(i)
  \/ \E i \in Queries : PoolSelectWrite(i)
  \/ \E i \in Queries : PoolCooldownWake(i)
  \/ \E i \in Queries : PoolSendRequest(i)
  \/ \E i \in Queries : PoolRequestReturns(i)
  \/ PoolTick
  \/ PoolIdleWait

PoolSpec == PoolInit /\ [][PoolNext]_vars

\* the agent loops when only the servers are exercised
LoopIdle ==
  /\ impl = "tool_user"
  /\ num_keys = 1
  /\ pc = "done"
  /\ iteration = 0
  /\ max_iterations = 0
  /\ retry = 0
  /\ parsed = NoParsed
  /\ result = NoResult
  /\ llm_calls = {}
  /\ actions_taken = << >>
  /\ internal_history = << >>
  /\ attempt = 0
  /\ execution_result = NoExecution
  /\ use_stats = NoStats
  /\ last_request = NoRequest
  /\ tool_files = EmptyFun
  /\ history = << >>
  /\ fetched_tools = {}
  /\ admin_ops = 0

RegistryInit ==
  /\ LoopIdle
  /\ PoolIdle
  /\ SessionIdle
  /\ store = EmptyFun
  /\ served = [NoServed EXCEPT !.kind = "start"]
  /\ \E directory \in Directories, daemon_up \in BOOLEAN :
       /\ tools = LoadToolDirectory(directory).tools
       /\ unavailable_tools = LoadToolDirectory(directory).unavailable_tools
       /\ bugged_tools = LoadToolDirectory(directory).bugged_tools
       /\ docker_executor = [client |-> daemon_up]
       /\ search_engine = BuildSearchIndex(LoadToolDirectory(directory).tools)

RegistryNext ==
  \/ ServerExecuteRequest
  \/ ClearToolBug
  \/ SearchEngineSearch

RegistrySpec == RegistryInit /\ [][RegistryNext]_vars

\* the executor alone: calls of execute_tool on a connected or an
\* unconnected executor
ExecutorInit ==
  /\ LoopIdle
  /\ PoolIdle
  /\ SessionIdle
  /\ store = EmptyFun
  /\ served = [NoServed EXCEPT !.kind = "start"]
  /\ tools = InitialTools
  /\ unavailable_tools = InitialUnavailableTools
  /\ bugged_tools = EmptyFun
  /\ search_engine = BuildSearchIndex(InitialTools)
  /\ docker_executor \in {[client |-> c] : c \in BOOLEAN}

ExecutorNext == DockerExecuteCall

ExecutorSpec == ExecutorInit /\ [][ExecutorNext]_vars

(***************************************************************************)
(* Execute requests served by the threads of the tool server.  app.run     *)
(* serves each request on its own thread and ToolRegistry holds no lock,   *)
(* so the statements of mark_tool_as_bugged of one request interleave with *)
(* those of another.                                                       *)
(***************************************************************************)
\* the request is routed: the checks that precede the run
HandlerReceive(r) ==
  /\ handlers[r].pc = "idle"
  /\ \E tool_name \in ModuleNames :
       handlers' =
         [handlers EXCEPT
            ![r] = IF tool_name \in tools
                      /\ ~IsToolBugged(bugged_tools, tool_name)
                     THEN [@ EXCEPT !.pc = "run", !.tool = tool_name]
                     ELSE [@ EXCEPT !.pc = "done", !.tool = tool_name,
                                    !.outcome = "refused"]]
  /\ UNCHANGED << poolVars, loopVars, tools, unavailable_tools, bugged_tools,
                  store, docker_executor, search_engine, served, websocket,
                  dbVars >>

\* the sandbox run and the in-process run: one of them succeeds, or both
\* fail and the handler enters mark_tool_as_bugged
HandlerRun(r) ==
  /\ handlers[r].pc = "run"
  /\ \E failed \in BOOLEAN :
       handlers' =
         [handlers EXCEPT
            ![r] = IF failed
                     THEN [@ EXCEPT !.pc = "mark_check", !.outcome = "failed"]
                     ELSE [@ EXCEPT !.pc = "done", !.outcome = "ok"]]
  /\ UNCHANGED << poolVars, loopVars, tools, unavailable_tools, bugged_tools,
                  store, docker_executor, search_engine, served, websocket,
                  dbVars >>

\* mark_tool_as_bugged: the two membership tests
HandlerMarkCheck(r) ==
  /\ handlers[r].pc = "mark_check"
  /\ LET tool_name == handlers[r].tool
     IN  handlers' =
           [handlers EXCEPT
              ![r] = IF tool_name \notin tools
                       THEN [@ EXCEPT !.pc = "done"]
                     ELSE IF tool_name \notin DOMAIN bugged_tools
                       THEN [@ EXCEPT !.pc = "mark_create"]
                     ELSE [@ EXCEPT !.pc = "mark_append", !.present = TRUE]]
  /\ UNCHANGED << poolVars, loopVars, tools, unavailable_tools, bugged_tools,
                  store, docker_executor, search_engine, served, websocket,
                  dbVars >>

\* mark_tool_as_bugged: the assignment of a record with an empty log
HandlerMarkCreate(r) ==
  /\ handlers[r].pc = "mark_create"
  /\ bugged_tools' = (handlers[r].tool :> << >>) @@ bugged_tools
  /\ handlers' = [handlers EXCEPT ![r].pc = "mark_append"]
  /\ UNCHANGED << poolVars, loopVars, tools, unavailable_tools,
                  store, docker_executor, search_engine, served, websocket,
                  dbVars >>

\* mark_tool_as_bugged: the append to the log, then the 500 response
HandlerMarkAppend(r) ==
  /\ handlers[r].pc = "mark_append"
  /\ bugged_tools' =
       [bugged_tools EXCEPT
          ![handlers[r].tool] =
             Append(@, [docker_error |-> "none", direct_error |-> "raise"])]
  /\ handlers' = [handlers EXCEPT ![r].pc = "done"]
  /\ UNCHANGED << poolVars, loopVars, tools, unavailable_tools,
                  store, docker_executor, search_engine, served, websocket,
                  dbVars >>

ConcurrentInit ==
  /\ LoopIdle
  /\ PoolIdle
  /\ store = EmptyFun
  /\ served = [NoServed EXCEPT !.kind = "start"]
  /\ handlers = [r \in Requests |-> IdleHandler]
  /\ websocket = NoSession
  /\ db_rows = {}
  /\ registry_table = {}
  /\ db_sessions = [c \in Clients |-> IdleSession]
  /\ crud = NoCrud
  /\ docker_executor = [client |-> TRUE]
  /\ \E directory \in Directories :
       /\ tools = LoadToolDirectory(directory).tools
       /\ unavailable_tools = LoadToolDirectory(directory).unavailable_tools
       /\ bugged_tools = LoadToolDirectory(directory).bugged_tools
       /\ search_engine = BuildSearchIndex(LoadToolDirectory(directory).tools)

ConcurrentNext ==
  \/ \E r \in Requests : HandlerReceive(r)
  \/ \E r \in Requests : HandlerRun(r)
  \/ \E r \in Requests : HandlerMarkCheck(r)
  \/ \E r \in Requests : HandlerMarkCreate(r)
  \/ \E r \in Requests : HandlerMarkAppend(r)

ConcurrentSpec == ConcurrentInit /\ [][ConcurrentNext]_vars

(***************************************************************************)
(* The CRUD endpoints of the tool store.  The endpoints are plain          *)
(* functions, which the server runs on worker threads, each with its own   *)
(* database session: create_tool's query and its commit are two steps that *)
(* requests of other clients come between.  The table gives a new row the  *)
(* id after the largest id it holds.                                       *)
(***************************************************************************)
RowNames(rows) == {row.name : row \in rows}

RowIds(rows) == {row.id : row \in rows}

NextRowId(rows) ==
  IF rows = {} THEN 1
  ELSE (CHOOSE i \in RowIds(rows) : \A j \in RowIds(rows) : j <= i) + 1

\* an INSERT that no constraint of the table checks
InsertRow_NoUniqueConstraint(rows, name) ==
  [status |-> 201, id |-> NextRowId(rows),
   rows |-> rows \cup {[id |-> NextRowId(rows), name |-> name,
                        is_active |-> TRUE]}]

\* db.add, db.commit of create_tool: the INSERT fails on the unique
\* constraint of the name column, and the request ends with status 500
InsertRow(rows, name) ==
  IF name \in RowNames(rows)
    THEN [status |-> 500, id |-> 0, rows |-> rows]
    ELSE [status |-> 201, id |-> NextRowId(rows),
          rows |-> rows \cup {[id |-> NextRowId(rows), name |-> name,
                               is_active |-> TRUE]}]

\* a delete that answers 200 and leaves the row in the table
DeleteRow_KeepsRow(rows, id) ==
  IF id \notin RowIds(rows)
    THEN [status |-> 404, rows |-> rows]
    ELSE [status |-> 200, rows |-> rows]

\* delete_tool
DeleteRow(rows, id) ==
  IF id \notin RowIds(rows)
    THEN [status |-> 404, rows |-> rows]
    ELSE [status |-> 200, rows |-> {row \in rows : row.id # id}]

\* update_tool: CodeToolUpdate has no name field
UpdateRow(rows, id, is_active) ==
  IF id \notin RowIds(rows)
    THEN [status |-> 404, rows |-> rows]
    ELSE [status |-> 200,
          rows |-> {IF row.id = id THEN [row EXCEPT !.is_active = is_active]
                    ELSE row : row \in rows}]

\* get_tool_by_name
GetToolByName(rows, name) ==
  IF name \in RowNames(rows) THEN 200 ELSE 404

\* the observer: one client's create of an absent name, get-by-name, delete
\* of the created id, get-by-name, with no request of another client and no
\* other request of this client between them
FollowSequence(cr, c, op, name, id, status, rows) ==
  IF op = "create_check"
    THEN [NoCrud EXCEPT !.stage = 1, !.client = c, !.name = name,
                        !.before = rows]
  ELSE IF c # cr.client THEN NoCrud
  ELSE IF cr.stage = 1 /\ op = "create" /\ name = cr.name
    THEN [cr EXCEPT !.stage = 2, !.id = id, !.statuses = Append(@, status)]
  ELSE IF cr.stage = 2 /\ op = "get" /\ name = cr.name
    THEN [cr EXCEPT !.stage = 3, !.statuses = Append(@, status)]
  ELSE IF cr.stage = 3 /\ op = "delete" /\ id = cr.id
    THEN [cr EXCEPT !.stage = 4, !.statuses = Append(@, status)]
  ELSE IF cr.stage = 4 /\ op = "get" /\ name = cr.name
    THEN [cr EXCEPT !.stage = 5, !.statuses = Append(@, status),
                    !.after = rows]
  ELSE NoCrud

Observe(cr, c, op, name, id, status, rows) ==
  [FollowSequence(cr, c, op, name, id, status, rows) EXCEPT
     !.answer = [client |-> c, op |-> op, name |-> name, status |-> status]]

\* POST /tools/: the query for a row of this name
StoreCreateCheck(c) ==
  /\ db_sessions[c].pc = "idle"
  /\ \E name \in StoreNames :
       IF name \in RowNames(db_rows)
         THEN /\ crud' = Observe(crud, c, "create", name, 0, 400, db_rows)
              /\ UNCHANGED db_sessions
         ELSE /\ crud' = Observe(crud, c, "create_check", name, 0, 0, db_rows)
              /\ db_sessions' =
                   [db_sessions EXCEPT ![c] = [pc |-> "create_commit",
                                               name |-> name]]
  /\ UNCHANGED << agentVars, poolVars, docker_executor, search_engine, served,
                  handlers, websocket, db_rows, registry_table >>

\* POST /tools/: db.add, db.commit, db.refresh
StoreCreateCommit(c) ==
  /\ db_sessions[c].pc = "create_commit"
  /\ NextRowId(db_rows) <= MaxRows
  /\ LET name == db_sessions[c].name
         inserted == InsertRow(db_rows, name)
     IN  /\ db_rows' = inserted.rows
         /\ crud' = Observe(crud, c, "create", name, inserted.id,
                            inserted.status, inserted.rows)
  /\ db_sessions' = [db_sessions EXCEPT ![c] = IdleSession]
  /\ UNCHANGED << agentVars, poolVars, docker_executor, search_engine, served,
                  handlers, websocket, registry_table >>

\* GET /tools/name/{tool_name}
StoreGetByName(c) ==
  /\ db_sessions[c].pc = "idle"
  /\ \E name \in StoreNames :
       crud' = Observe(crud, c, "get", name, 0, GetToolByName(db_rows, name),
                       db_rows)
  /\ UNCHANGED << agentVars, poolVars, docker_executor, search_engine, served,
                  handlers, websocket, db_rows, registry_table, db_sessions >>

\* PUT /tools/{tool_id}
StoreUpdate(c) ==
  /\ db_sessions[c].pc = "idle"
  /\ \E id \in 1 .. MaxRows, is_active \in BOOLEAN :
       LET updated == UpdateRow(db_rows, id, is_active)
       IN  /\ db_rows' = updated.rows
           /\ crud' = Observe(crud, c, "update", NoName, id, updated.status,
                              updated.rows)
  /\ UNCHANGED << agentVars, poolVars, docker_executor, search_engine, served,
                  handlers, websocket, registry_table, db_sessions >>

\* DELETE /tools/{tool_id}
StoreDelete(c) ==
  /\ db_sessions[c].pc = "idle"
  /\ \E id \in 1 .. MaxRows :
       LET deleted == DeleteRow(db_rows, id)
       IN  /\ db_rows' = deleted.rows
           /\ crud' = Observe(crud, c, "delete", NoName, id, deleted.status,
                              deleted.rows)
  /\ UNCHANGED << agentVars, poolVars, docker_executor, search_engine, served,
                  handlers, websocket, registry_table, db_sessions >>

\* self.tools[tool_info['name']] = tool_info
DictAssign(table, name, module) ==
  {e \in table : e.name # name} \cup {[name |-> name, module |-> module]}

\* _load_tools over the files of the directory in the order glob lists them
RECURSIVE LoadToolTable(_)
LoadToolTable(files) ==
  IF files = << >> THEN {}
  ELSE LET m == files[Len(files)]
           table == LoadToolTable(SubSeq(files, 1, Len(files) - 1))
       IN  IF m.imported /\ m.extracted
             THEN DictAssign(table, m.tool_name, m.stem)
             ELSE table

\* the listings of a tools directory: no two files have one stem
DirectoryListings ==
  {<< >>} \cup {<< m >> : m \in Modules}
    \cup {<< d[1], d[2] >> :
            d \in {p \in Modules \X Modules : p[1].stem # p[2].stem}}

StoreInit ==
  /\ AgentIdle
  /\ PoolIdle
  /\ docker_executor = [client |-> TRUE]
  /\ search_engine = BuildSearchIndex(InitialTools)
  /\ served = NoServed
  /\ handlers = [r \in Requests |-> IdleHandler]
  /\ websocket = NoSession
  /\ db_rows = {}
  /\ db_sessions = [c \in Clients |-> IdleSession]
  /\ crud = NoCrud
  /\ registry_table \in {LoadToolTable(files) : files \in DirectoryListings}

StoreNext ==
  \/ \E c \in Clients : StoreCreateCheck(c)
  \/ \E c \in Clients : StoreCreateCommit(c)
  \/ \E c \in Clients : StoreGetByName(c)
  \/ \E c \in Clients : StoreUpdate(c)
  \/ \E c \in Clients : StoreDelete(c)

StoreSpec == StoreInit /\ [][StoreNext]_vars

(***************************************************************************)
(* The WebSocket session of /ws/ask.  Each send_text is one step; a send   *)
(* to a client that has gone raises, and the handler ends without a        *)
(* message.                                                                *)
(***************************************************************************)
\* states an iteration's response names: one that continues, and the exit
WsStates == {"fetch_tool", "exit_response"}

\* await websocket.send_text(create_message(type, ...)), then the handler
\* goes on at next; the send raises when the client has disconnected, and
\* the error message the handlers then try to send raises as well
WsSendThen(ws, type, next) ==
  IF ws.connected
    THEN [ws EXCEPT !.sent = Append(@, [type |-> type,
                                        iteration |-> ws.iteration]),
                    !.pc = next]
    ELSE [ws EXCEPT !.pc = "closed"]

\* an LLM failure after which the handler goes on to parse the response
WsLlmError_Continues(ws) ==
  WsSendThen([ws EXCEPT !.llm_failed = @ \cup {ws.iteration}], "error",
             "state")

\* except Exception of the LLM call: the error message, then return
WsLlmError(ws) ==
  WsSendThen([ws EXCEPT !.llm_failed = @ \cup {ws.iteration}], "error",
             "closed")

\* receive_text and the start message; an empty question is answered with
\* an error and no start
WsReceive ==
  /\ websocket.pc = "accepted"
  /\ \E question \in {"", "q"} :
       websocket' = IF question = ""
                      THEN WsSendThen(websocket, "error", "closed")
                      ELSE WsSendThen(websocket, "start", "iteration")
  /\ UNCHANGED << agentVars, poolVars, docker_executor, search_engine, served,
                  handlers, dbVars >>

\* the head of the loop: the next iteration's message, or timeout when the
\* range is exhausted
WsIterationStart ==
  /\ websocket.pc = "iteration"
  /\ websocket' =
       IF websocket.iteration < WsIterations
         THEN WsSendThen([websocket EXCEPT !.iteration = @ + 1, !.chunks = 0],
                         "iteration", "thinking")
         ELSE WsSendThen(websocket, "timeout", "closed")
  /\ UNCHANGED << agentVars, poolVars, docker_executor, search_engine, served,
                  handlers, dbVars >>

WsThinking ==
  /\ websocket.pc = "thinking"
  /\ websocket' = WsSendThen(websocket, "thinking", "llm")
  /\ UNCHANGED << agentVars, poolVars, docker_executor, search_engine, served,
                  handlers, dbVars >>

\* generate_content_stream and the loop over its chunks: a chunk is sent,
\* the stream ends, or the call or the stream raises
WsStream ==
  /\ websocket.pc = "llm"
  /\ \E event \in {"chunk", "end", "raise"} :
       /\ event = "chunk" => websocket.chunks < MaxChunks
       /\ websocket' =
            IF event = "chunk"
              THEN WsSendThen([websocket EXCEPT !.chunks = @ + 1], "stream",
                              "llm")
            ELSE IF event = "end"
              THEN WsSendThen(websocket, "response_complete", "state")
            ELSE WsLlmError(websocket)
  /\ UNCHANGED << agentVars, poolVars, docker_executor, search_engine, served,
                  handlers, dbVars >>

\* _parse_gemini_response and the state message; a response that is JSON
\* but no AgentState raises, which the outer handler answers with error
WsState ==
  /\ websocket.pc = "state"
  /\ \E parsed_state \in WsStates \cup {"raise"} :
       websocket' =
         IF parsed_state = "raise"
           THEN WsSendThen(websocket, "error", "closed")
           ELSE WsSendThen([websocket EXCEPT !.state = parsed_state], "state",
                           "action")
  /\ UNCHANGED << agentVars, poolVars, docker_executor, search_engine, served,
                  handlers, dbVars >>

WsAction ==
  /\ websocket.pc = "action"
  /\ websocket' = WsSendThen(websocket, "action", "execute")
  /\ UNCHANGED << agentVars, poolVars, docker_executor, search_engine, served,
                  handlers, dbVars >>

\* _execute_state and the result message; then final on exit_response
WsExecute ==
  /\ websocket.pc = "execute"
  /\ \E raised \in BOOLEAN :
       websocket' =
         IF raised
           THEN WsSendThen(websocket, "error", "closed")
           ELSE WsSendThen(websocket, "result",
                           IF websocket.state = "exit_response"
                             THEN "final" ELSE "iteration")
  /\ UNCHANGED << agentVars, poolVars, docker_executor, search_engine, served,
                  handlers, dbVars >>

WsFinal ==
  /\ websocket.pc = "final"
  /\ websocket' = WsSendThen(websocket, "final", "closed")
  /\ UNCHANGED << agentVars, poolVars, docker_executor, search_engine, served,
                  handlers, dbVars >>

\* the client closes the connection
WsDisconnect ==
  /\ websocket.pc \notin {"accepted", "closed"}
  /\ websocket.connected
  /\ websocket' = [websocket EXCEPT !.connected = FALSE]
  /\ UNCHANGED << agentVars, poolVars, docker_executor, search_engine, served,
                  handlers, dbVars >>

WsInit ==
  /\ AgentIdle
  /\ PoolIdle
  /\ docker_executor = [client |-> TRUE]
  /\ search_engine = BuildSearchIndex(InitialTools)
  /\ served = NoServed
  /\ handlers = [r \in Requests |-> IdleHandler]
  /\ db_rows = {}
  /\ registry_table = {}
  /\ db_sessions = [c \in Clients |-> IdleSession]
  /\ crud = NoCrud
  /\ websocket = [NoSession EXCEPT !.pc = "accepted", !.connected = TRUE]

WsNext ==
  \/ WsReceive
  \/ WsIterationStart
  \/ WsThinking
  \/ WsStream
  \/ WsState
  \/ WsAction
  \/ WsExecute
  \/ WsFinal
  \/ WsDisconnect

WsSpec == WsInit /\ [][WsNext]_vars

TypeOK ==
  /\ impl \in {"tool_user", "tool_use"}
  /\ pc \in {"top", "llm", "dispatch", "use_exec", "use_return",
             "create_llm", "done"}
  /\ iteration \in 0 .. max_iterations
  /\ admin_ops \in 0 .. MaxAdminOps

(***************************************************************************)
(* Properties.                                                             *)
(***************************************************************************)
Last(seq) == seq[Len(seq)]

\* C1: every successful result of the agent loop reports iterations <=
\* max_iterations, and no LLM call is made in an iteration numbered above
\* max_iterations.
C1_IterationsBounded ==
  /\ result.success => result.iterations <= max_iterations
  /\ \A i \in llm_calls : i <= max_iterations

\* a successful answer given in the last iteration the budget allows
C1_Witness ==
  /\ pc = "done"
  /\ result.success
  /\ max_iterations > 1
  /\ result.iterations = max_iterations
  /\ max_iterations \in llm_calls

C3_RespondTerminates ==
  [][(/\ pc = "dispatch"
      /\ parsed.action \in {"respond", "exit_response"}
      /\ pc' # pc) => pc' = "done"]_vars

\* C4: every tool marked bugged, in the registry or in the store, has at
\* least two failures in its failure log.
C4_BuggedHasTwoFailures ==
  /\ \A t \in DOMAIN bugged_tools : Len(bugged_tools[t]) >= 2
  /\ \A n \in DOMAIN store :
       store[n].is_bugged => Len(store[n].bug_details) >= 2

BuggedErrors == {"bugged", "Tool is marked as bugged"}

\* C5 as stated: an execute request for a tool that is marked bugged fails
\* with the bugged error, and no code of a bugged tool is run by a request,
\* directly or through execute_tool of a composite.
C5_BuggedFailsWithBuggedError ==
  /\ last_request.ran \cap last_request.bugged_before = {}
  /\ last_request.tool \in last_request.bugged_before =>
       last_request.error \in BuggedErrors

\* C5 as amended: no code of a bugged tool is run by an execute request,
\* directly or through execute_tool of a composite; the request for a bugged
\* tool fails, with the bugged error unless the store answers that the tool
\* is not active.
C5_BuggedNeverRuns ==
  /\ last_request.ran \cap last_request.bugged_before = {}
  /\ last_request.tool \in last_request.bugged_before =>
       \/ last_request.error \in BuggedErrors
       \/ /\ last_request.server = "store"
          /\ last_request.error = "Tool is not active"

\* the store refused a bugged tool
C5_Witness ==
  /\ last_request.server = "store"
  /\ last_request.tool \in last_request.bugged_before
  /\ last_request.error = "Tool is marked as bugged"
  /\ last_request.ran = {}

\* C6: when both attempts of a use_tool action failed, then at the return
\* of handle_use_tool the registry marks the tool bugged and the last
\* history entry is the system observation telling the LLM to author a tool
\* with a different name.
C6_TwoFailuresMarkBugged ==
  (/\ pc = "use_return"
   /\ use_stats.requests = 2
   /\ ~execution_result.success)
  => /\ IsToolBugged(bugged_tools, parsed.tool_name)
     /\ Last(internal_history).role = "system"
     /\ Last(internal_history).kind \in {"failed_after_retries", "marked_as_bugged"}

\* C7: when the registry marks the tool bugged as the use_tool action
\* arrives, handle_use_tool sends one request, waits for no retry and
\* appends the 'marked as BUGGED' observation.
C7_BuggedFailsFast ==
  (pc = "use_return" /\ use_stats.bugged_at_entry)
  => /\ use_stats.requests = 1
     /\ use_stats.waits = 0
     /\ Last(internal_history).kind = "marked_as_bugged"

\* C8: every accepted create_tool is preceded in the history of the query by
\* a search_tools / fetch_tool action, in both implementations.
C8_CreateAfterSearch ==
  /\ \A i \in DOMAIN internal_history :
       internal_history[i].kind = "created_successfully" =>
         \E j \in 1 .. i - 1 : internal_history[j].kind = "search_tools"
  /\ \A i \in DOMAIN history :
       (history[i].state = "create_tool" /\ history[i].success) =>
         \E j \in 1 .. i - 1 : history[j].state = "fetch_tool"

\* C9: a create_tool that follows a fetch_tool which found 0 tools is not
\* turned down by the search-first check: the agent goes on to ask for code.
C9_CreateAfterEmptySearch ==
  [][(/\ impl = "tool_use"
      /\ pc = "dispatch"
      /\ parsed.action = "create_tool"
      /\ history # << >>
      /\ Last(history).state = "fetch_tool"
      /\ Last(history).tools_found = 0
      /\ pc' # pc) => pc' = "create_llm"]_vars

\* the tokens of the rule, matched without regard to case
ContainsForbiddenToken(code) ==
  \E token \in forbidden_patterns : Lower(token) = Lower(code)

\* C10: no code containing one of the eight forbidden tokens, in any case,
\* is persisted by a create_tool: neither as a tool file nor as a record of
\* the store.
C10_NoPlaceholderPersisted ==
  /\ \A n \in DOMAIN tool_files : ~ContainsForbiddenToken(tool_files[n])
  /\ \A i \in DOMAIN history :
       (history[i].state = "create_tool" /\ history[i].success) =>
         ~ContainsForbiddenToken(history[i].generated_code)

\* C11: when handle_create_tool reported success for a tool and the next
\* action is a use_tool of that tool, the tool server does not answer the
\* execute request with 'not found'.
C11_CreatedToolIsAvailable ==
  (/\ impl = "tool_user"
   /\ pc = "use_return"
   /\ \E k \in DOMAIN internal_history :
        /\ internal_history[k] =
             Entry("system", "created_successfully", parsed.tool_name)
        /\ k + 1 \in DOMAIN internal_history
        /\ internal_history[k + 1] =
             Entry("assistant", "use_tool", parsed.tool_name)
        /\ \A j \in DOMAIN internal_history :
             j > k + 1 => internal_history[j].role = "system")
  => execution_result.error # "not_found"

\* C15: when the provider answered the LLM call of the last iteration with
\* an overload-class error, the query has failed with error_type
\* all_keys_overloaded after 2N attempts; it has not succeeded with the
\* provider's error text as its response.
C15_OverloadFails ==
  (impl = "tool_user" /\ pc = "done" /\ parsed.provider = "overloaded")
  => /\ ~result.success
     /\ result.error_type = "all_keys_overloaded"
     /\ retry + 1 = 2 * num_keys
     /\ result.response # "provider_error_text"

\* C17: when the provider answered the LLM call of the last iteration with
\* an error that is not of the transient class, the query has failed on the
\* first attempt, with error_type api_error where the agent loop gives one.
C17_FatalErrorFails ==
  (pc = "done" /\ parsed.provider = "fatal")
  => /\ ~result.success
     /\ retry = 0
     /\ impl = "tool_user" => result.error_type = "api_error"

\* C18: an LLM text that cannot be parsed as JSON does not end the query:
\* the loop is never finished in the iteration of such a text, and neither
\* the text nor a parsing-error message is the final answer of a successful
\* result.
C18_ParseFailureContinues ==
  /\ pc = "done" => parsed.response \notin {"unparsed_text", "parsing_error"}
  /\ result.success =>
       result.response \notin {"unparsed_text", "parsing_error"}

\* C19: after a use_tool action whose execution failed, agent_loop appends
\* the system observation of the failure and goes back to the loop head
\* without returning; a query whose last action was a use_tool has ended
\* only by the exhausted iteration budget.
C19_ExecutionFailureContinues ==
  /\ [][(pc = "use_return" /\ ~execution_result.success /\ pc' # pc) =>
          /\ pc' = "top"
          /\ result' = result
          /\ Last(internal_history') =
               Entry("system", "tool_execution_failed", parsed.tool_name)]_vars
  /\ []((/\ impl = "tool_user"
         /\ pc = "done"
         /\ actions_taken # << >>
         /\ Last(actions_taken) = "use_tool")
        => (result.kind = "max_iterations" /\ iteration = max_iterations))

\* the LLM is asked again after a tool execution that failed
C19_Witness ==
  /\ impl = "tool_user"
  /\ pc = "llm"
  /\ iteration >= 2
  /\ internal_history # << >>
  /\ Last(internal_history).kind = "tool_execution_failed"
  /\ ~execution_result.success

\* C20: every failure record of the agent loop carries an error_type; the
\* record of the exhausted iteration budget, as with max_iterations = 1 and
\* a first action that is not respond, carries bounded_iterations.
C20_FailureHasErrorType ==
  (pc = "done" /\ ~result.success)
  => /\ result.error_type # "absent"
     /\ result.kind = "max_iterations" =>
          result.error_type = "bounded_iterations"

\* C12: any two consecutive returns of _wait_for_rate_limit, of the same
\* query or of two queries, are at least the minimum request interval of
\* the manager apart.
C12_MinIntervalBetweenAcquisitions ==
  pool_obs.prev_return # 0 =>
    pool_obs.last_return - pool_obs.prev_return >= MinInterval(api_manager)

\* two queries acquired one after the other, exactly the interval apart
C12_Witness ==
  /\ pool_obs.prev_query # 0
  /\ pool_obs.prev_query # pool_obs.last_query
  /\ pool_obs.last_return - pool_obs.prev_return = MinInterval(api_manager)

\* C13: key acquisition is mutually exclusive: at most one query is between
\* the entry of _wait_for_rate_limit and the return of the key selection, so
\* no advance of current_index is lost (the index is the number of advances
\* made, modulo the pool size) and last_request_time is the time of the
\* last acquisition.
C13_AcquisitionMutuallyExclusive ==
  /\ \A i, j \in Queries :
       /\ callers[i].pc \in {"wait", "rate_sleep", "select", "select_write",
                              "cooldown_sleep"}
       /\ callers[j].pc \in {"wait", "rate_sleep", "select", "select_write",
                              "cooldown_sleep"}
       => i = j
  /\ (\A i \in Queries : callers[i].pc # "select_write")
       => api_manager.current_index = pool_obs.advances
  /\ api_manager.last_request_time = pool_obs.last_return

\* a second query has taken the key after the one another query took
C13_Witness ==
  /\ pool_obs.prev_query # 0
  /\ pool_obs.prev_query # pool_obs.last_query
  /\ api_manager.size = PoolKeys
  /\ api_manager.current_index = 2
  /\ pool_obs.handed.key_number = 2
  /\ callers[pool_obs.last_query].pc = "request"

\* C14: the key handed out by _get_next_available_client is never one whose
\* cooldown is still running.
C14_NeverHandsOutCoolingKey == ~pool_obs.handed.cooling

\* C16: key rotation: an overload-class answer (429) of the credential in
\* use, while attempts remain, makes agent_loop go on to the next attempt
\* and credential; it is never taken as the answer of the model.
C16_OverloadRotates ==
  [][(impl = "tool_user" /\ pc = "llm" /\ retry < max_retries - 1
        /\ pc' = "dispatch")
       => parsed'.provider # "overloaded"]_vars

\* C21: fallback rule of the execute endpoint: when the sandbox run fails
\* because the tool itself raised in the container, the error is passed on
\* and the tool is not executed a second time in the server process; only a
\* failure of the sandbox substrate leads to the direct execution.
C21_ToolErrorNotRunAgain ==
  (served.kind = "execute" /\ served.sandbox = "tool_error")
    => /\ ~served.ran_direct
       /\ ~served.success
       /\ ~served.docker_fallback

\* C22: with the sandbox daemon down, an execute request that asks for the
\* sandbox, for an available and non-bugged tool whose direct execution
\* returns, succeeds, and its envelope has executed_in_docker = false and
\* docker_fallback = true.
C22_DaemonDownFallsBack ==
  (/\ served.kind = "execute"
   /\ served.available
   /\ ~served.bugged
   /\ served.use_docker
   /\ ~served.client
   /\ served.direct = "ok")
    => /\ served.status = 200
       /\ served.success
       /\ ~served.executed_in_docker
       /\ served.docker_fallback

\* C23: on every return path of DockerToolExecutor.execute_tool the scratch
\* directory made for the call and the container launched for the call are
\* both absent after the call returns.
C23_ScratchAndContainerGone ==
  served.kind = "docker" => (~served.temp_dir /\ ~served.container)

\* C24: for any combined output of a container that exited, the envelope
\* execute_tool returns is the last line of the output that parses as a JSON
\* object, with exit_code and executed_in_docker = true attached; only when
\* no line parses is the result the failure 'Failed to parse tool output'.
C24_LastParseableLineIsEnvelope ==
  (served.kind = "docker" /\ served.client /\ served.run = "exited")
    => LET parseable == { k \in 1 .. Len(served.lines) :
                            ParsesAsObject(served.lines[k]) }
           last == CHOOSE k \in parseable : \A j \in parseable : j <= k
       IN  /\ served.result.executed_in_docker
           /\ served.result.exit_code
           /\ IF parseable = {}
                THEN /\ ~served.result.success
                     /\ served.result.error = "Failed to parse tool output"
                ELSE /\ served.result.envelope = served.lines[last]
                     /\ served.result.error # "Failed to parse tool output"

\* C25: an execute request for an available, non-bugged tool that omits a
\* required parameter is answered with status 400, on every path: sandbox
\* not asked for, sandbox unavailable, sandbox run failed first.
C25_MissingParameterIs400 ==
  (/\ served.kind = "execute"
   /\ served.available
   /\ ~served.bugged
   /\ served.direct = "missing_params")
    => served.status = 400

\* C26: after the tool directory is loaded, whatever modules it holds and
\* whichever of them fail to import or to give their metadata, no name is
\* both an available tool and an unavailable tool of the registry.
C26_AvailableUnavailableDisjoint ==
  served.kind = "start"
    => GetAvailabilityStatus.available_tool_names
         \cap GetAvailabilityStatus.unavailable_tool_names = {}

\* C27: after a clear-bug request the tool is executable again (not bugged)
\* and its bug history is kept: every failure the registry held of the tool
\* before the clear is still held after it.
C27_ClearKeepsBugHistory ==
  served.kind = "clear_bug"
    => /\ ~IsToolBugged(bugged_tools, served.tool)
       /\ \A k \in 1 .. Len(served.failures) :
            /\ k <= Len(Failures(bugged_tools, served.tool))
            /\ Failures(bugged_tools, served.tool)[k] = served.failures[k]

\* C28: once a tool is marked bugged, only the explicit clear-bug operation
\* makes it non-bugged: no step of an agent loop (execute, search, create,
\* respond) takes a tool out of the bugged tools of the registry, and a
\* bugged row of the tool store becomes non-bugged only by an
\* administration request.
C28_BuggedStaysBugged ==
  [][/\ \A n \in DOMAIN bugged_tools : n \in DOMAIN bugged_tools'
     /\ \A n \in DOMAIN store \cap DOMAIN store' :
          (store[n].is_bugged /\ ~store'[n].is_bugged)
            => admin_ops' = admin_ops + 1]_vars

\* C29: a search made for LLM context, where exclude_bugged is in effect,
\* returns no tool that is marked bugged at the time of the search, also
\* when the tool became bugged after the index was built; a search with a
\* category returns only tools of that category.
C29_SearchExcludesBugged ==
  (served.kind = "engine_search" /\ served.exclude_bugged)
    => \A k \in 1 .. Len(served.results) :
         /\ served.results[k] \notin served.bugged_names
         /\ served.category # "none"
              => Category(served.results[k]) = served.category

\* C30: a search returns at most top_k results, each with a score above the
\* threshold, in non-increasing order of score.
C30_SearchResultsOrderedAndBounded ==
  served.kind = "engine_search"
    => /\ Len(served.results) <= served.top_k
       /\ \A k \in 1 .. Len(served.results) :
            served.score[served.results[k]] > SCORE_THRESHOLD
       /\ \A k \in 1 .. Len(served.results) - 1 :
            served.score[served.results[k]]
              >= served.score[served.results[k + 1]]

\* C38: within one execute request the tool runs in the server process only
\* if the sandbox run did not return success: a request whose sandbox run
\* succeeded is answered from the sandbox, does not execute the tool
\* directly and leaves the bugged tools as they were.
C38_NoDirectRunAfterSandboxSuccess ==
  [][(served'.kind = "execute" /\ served'.sandbox = "success")
       => /\ served'.ran_sandbox
          /\ ~served'.ran_direct
          /\ served'.executed_in_docker
          /\ bugged_tools' = bugged_tools]_vars

C38_Witness ==
  /\ served.kind = "execute"
  /\ served.sandbox = "success"
  /\ served.status = 200
  /\ served.ran_sandbox

\* C37: an execute request that omits a required parameter leaves the
\* quarantine state as it was: the bugged tools of the registry and their
\* failure logs are the same after the request as before.
C37_MissingParameterLeavesBuggedUnchanged ==
  [][(served'.kind = "execute" /\ served'.direct = "missing_params")
       => bugged_tools' = bugged_tools]_vars

\* C40: round-robin of the key pool: current_index stays within 0 .. N-1,
\* and an acquisition made while no credential is in cooldown takes the
\* credential at current_index and moves current_index to the next index
\* modulo N; N consecutive such acquisitions by sequential callers therefore
\* use each credential once, in index order from current_index.
C40_RoundRobin ==
  [][/\ api_manager'.current_index \in 0 .. api_manager'.size - 1
     /\ \A i \in Queries :
          /\ (/\ callers[i].pc = "select"
              /\ callers'[i].pc = "select_write"
              /\ \A c \in 0 .. api_manager.size - 1 :
                   ~Cooling(api_manager, c, now))
               => /\ callers'[i].found
                  /\ callers'[i].key_number = api_manager.current_index + 1
                  /\ callers'[i].new_index =
                       (api_manager.current_index + 1) % api_manager.size
          /\ (callers[i].pc = "select_write" /\ callers'[i].pc = "request")
               => /\ api_manager'.current_index = callers[i].new_index
                  /\ pool_obs'.handed.key_number = callers[i].key_number]_vars

\* every credential of a pool of several keys was handed out in turn and
\* current_index is back at 0, with no cooldown recorded
C40_Witness ==
  /\ api_manager.size >= 2
  /\ api_manager.key_cooldowns = EmptyFun
  /\ pool_obs.advances = 0
  /\ pool_obs.handed.key_number = api_manager.size
  /\ api_manager.current_index = 0

\* C36: composite guard: once an analyze_tools_for_composite action has
\* fetched the source of candidate tools in the query, every create_tool
\* accepted afterwards has code that calls execute_tool(; code without such
\* a call is rejected and nothing is persisted, whatever the description.
C36_CompositeGuard ==
  [][(/\ impl = "tool_use"
      /\ pc = "create_llm"
      /\ \E i \in DOMAIN history :
           /\ history[i].state = "analyze_tools_for_composite"
           /\ history[i].tools_found > 0
      /\ store' # store)
       => \A n \in DOMAIN store' \ DOMAIN store : store'[n].calls # NoName]_vars

\* C39: an execute request to the store changes no stored field of a tool
\* that ran only as a callee, through the execute_tool given to composite
\* code: execution_count, bug_count, is_bugged and bug_details of every tool
\* other than the one executed by the request are as before, and a failure
\* of a callee is recorded against the executed tool alone.
C39_NestedExecutionKeepsCallee ==
  [][(/\ impl = "tool_use"
      /\ pc = "dispatch"
      /\ parsed.action = "use_tool"
      /\ pc' = "top")
       => /\ DOMAIN store' = DOMAIN store
          /\ \A n \in DOMAIN store :
               n # parsed.tool_name => store'[n] = store[n]]_vars

\* a composite was executed, its callee ran and raised, and the composite
\* alone is bugged
C39_Witness ==
  /\ last_request.server = "store"
  /\ last_request.tool = "reverse_text"
  /\ last_request.ran = {"reverse_text", "web_search"}
  /\ "reverse_text" \in DOMAIN store
  /\ "web_search" \in DOMAIN store
  /\ store["reverse_text"].is_bugged
  /\ store["reverse_text"].bug_count = 1
  /\ ~store["web_search"].is_bugged
  /\ store["web_search"].execution_count = 0

RECURSIVE FollowsCalls(_, _, _)
\* the chain of calls from tool n goes on for k more tools of the store
FollowsCalls(st, n, k) ==
  IF k = 0 THEN TRUE
  ELSE n \in DOMAIN st /\ FollowsCalls(st, st[n].calls, k - 1)

\* the chain of calls from n never ends: n calls itself, directly or
\* through a cycle of other tools
CallsInCycle(st, n) == FollowsCalls(st, n, Cardinality(DOMAIN st) + 1)

C35_FailureLogHoldsEveryFailure ==
  (\A r \in Requests : handlers[r].pc \in {"idle", "done"})
    => \A n \in tools :
         Len(Failures(bugged_tools, n))
           = Cardinality({r \in Requests : /\ handlers[r].tool = n
                                           /\ handlers[r].outcome = "failed"})

\* C31: for a name not yet present, the sequence create, get-by-name, delete,
\* get-by-name yields the statuses 201, 200, 200, 404, and after it the store
\* holds the same records as before the create
C31_CreateGetDeleteGet ==
  crud.stage = 5
    => /\ crud.statuses = << 201, 200, 200, 404 >>
       /\ crud.after = crud.before

C31_Witness ==
  /\ crud.stage = 5
  /\ crud.before # {}
  /\ crud.id > 1

\* C32: no two records of the tool store share a name, whatever requests are
\* made and however they interleave; a create whose name is in the store is
\* rejected and leaves the store unchanged; the registry's table of loaded
\* tools has at most one entry for a name
C32_NamesAreUnique ==
  /\ [](\A r1, r2 \in db_rows : r1.name = r2.name => r1 = r2)
  /\ [](\A e1, e2 \in registry_table : e1.name = e2.name => e1 = e2)
  /\ [][(/\ crud' # crud
         /\ crud'.answer.op = "create"
         /\ crud'.answer.name \in RowNames(db_rows))
          => /\ crud'.answer.status \in {400, 500}
             /\ db_rows' = db_rows]_vars

\* a create that lost the race against another client's create of the name
C32_Witness ==
  /\ crud.answer.op = "create"
  /\ crud.answer.status = 500
  /\ crud.answer.name \in RowNames(db_rows)
  /\ Cardinality(db_rows) = 2
  /\ Cardinality(registry_table) = 2

\* the message types that end a session
WsTerminal == {"final", "timeout", "error"}

\* the types that may follow a message of type a in the protocol order
WsFollowers(a) ==
  IF a = "start" THEN {"iteration", "error"}
  ELSE IF a = "iteration" THEN {"thinking", "error"}
  ELSE IF a \in {"thinking", "stream"}
    THEN {"stream", "response_complete", "error"}
  ELSE IF a = "response_complete" THEN {"state", "error"}
  ELSE IF a = "state" THEN {"action", "error"}
  ELSE IF a = "action" THEN {"result", "error"}
  ELSE IF a = "result" THEN {"iteration", "final", "timeout", "error"}
  ELSE {}

\* the messages of a session that sent start follow the protocol order, and
\* none of state, action, result belongs to an iteration whose LLM call
\* failed
WsOrdered ==
  LET sent == websocket.sent
  IN  (sent # << >> /\ sent[1].type = "start")
        => /\ \A i \in 1 .. Len(sent) - 1 :
                /\ sent[i + 1].type \in WsFollowers(sent[i].type)
                /\ sent[i + 1].iteration =
                     IF sent[i + 1].type = "iteration"
                       THEN sent[i].iteration + 1 ELSE sent[i].iteration
           /\ \A i \in 1 .. Len(sent) :
                sent[i].type \in {"state", "action", "result"}
                  => sent[i].iteration \notin websocket.llm_failed

WsTerminalCount ==
  Cardinality({i \in 1 .. Len(websocket.sent) :
                 websocket.sent[i].type \in WsTerminal})

WsStarted == websocket.sent # << >> /\ websocket.sent[1].type = "start"

\* C34 as stated: a session that sent start emits its messages in the
\* protocol order, ends with exactly one terminal message and sends nothing
\* after it, and sends no state, action or result for an iteration whose LLM
\* call failed
C34_ProtocolOrder ==
  /\ WsOrdered
  /\ (WsStarted /\ websocket.pc = "closed")
       => /\ WsTerminalCount = 1
          /\ Last(websocket.sent).type \in WsTerminal

\* C34 amended: the order holds for every session that sent start, no
\* session sends more than one terminal message or anything after it, and a
\* session whose client stays connected ends with exactly one terminal
\* message; a session whose client disconnects ends without one
C34_ProtocolOrderWhileConnected ==
  /\ WsOrdered
  /\ WsStarted
       => /\ WsTerminalCount <= 1
          /\ WsTerminalCount = 1
               => /\ Last(websocket.sent).type \in WsTerminal
                  /\ websocket.pc = "closed"
          /\ (websocket.pc = "closed" /\ websocket.connected)
               => WsTerminalCount = 1
          /\ (websocket.pc = "closed" /\ WsTerminalCount = 0)
               => ~websocket.connected

\* a session that streamed, ran two iterations and ended with final
C34_Witness ==
  /\ WsStarted
  /\ websocket.pc = "closed"
  /\ websocket.connected
  /\ Last(websocket.sent).type = "final"
  /\ websocket.iteration = 2
  /\ \E i \in 1 .. Len(websocket.sent) : websocket.sent[i].type = "stream"

====
